---- MODULE Spec2Model ----
(***************************************************************************)
(* Model of the form-submission pipeline of the Minervaa backend:          *)
(* validation, PDF rendering, e-mail delivery through the probed SMTP      *)
(* transport, and the file-based fallback store.                           *)
(*                                                                         *)
(* variant = "server" is src/server.js.  The other variants are the        *)
(* earlier / later server files kept in src/unnamed/part_002:              *)
(*   "wts"   the write-then-send server   (part_002 lines 2202-3001)       *)
(*   "retry" the retry-without-photo server (part_002 lines 1536-2200)     *)
(*                                                                         *)
(* A request handler is modelled await by await: one action is the code    *)
(* that runs, without suspension, from one await to the next.              *)
(***************************************************************************)
EXTENDS Integers, Sequences, FiniteSets, TLC

VARIABLES variant, now, transporter, activeConfig, probeLog, req, disk, contacts,
          pdf, lst, vec, call

\* The state of the servers: requests, transport, disk.
main == <<variant, now, transporter, activeConfig, probeLog, req, disk, contacts>>

\* The state of the functions studied on their own: one generatePDF call (pdf),
\* one run of the /api/admin/forms handler (lst), one verifyEmailConnection
\* call (vec), one call of another function or of a handler of the older
\* servers (call).  Each is "off" in the specifications that do not run it.
aux == <<pdf, lst, vec, call>>

vars == <<main, aux>>

Off == [pc |-> "off"]

(***************************************************************************)
(* Bounds of the model.                                                    *)
(***************************************************************************)
MaxReqs == 2
MaxTime == 2

Reqs == 1..MaxReqs

Variants == {"server", "wts", "retry"}

(***************************************************************************)
(* Form data.  A field of req.body is undefined, the empty string, or a    *)
(* non-empty string; the first two are falsy in JavaScript.                *)
(***************************************************************************)
requiredFields ==
  <<"childName", "dateOfBirth", "sex", "contactType", "contactNumber",
    "classAdmission", "tcAttached", "howKnow">>

RequiredSet == {requiredFields[i] : i \in 1..Len(requiredFields)}

FieldValues == {"undefined", "", "v"}

Falsy(v) == v \in {"undefined", ""}

AllPresent == [f \in RequiredSet |-> "v"]

\* The admission bodies the model submits: complete, one field absent, one
\* field empty, two fields missing, the first field missing, all missing.
FormSamples ==
  { AllPresent,
    [AllPresent EXCEPT !["howKnow"] = "undefined"],
    [AllPresent EXCEPT !["sex"] = ""],
    [AllPresent EXCEPT !["dateOfBirth"] = "", !["tcAttached"] = "undefined"],
    [AllPresent EXCEPT !["childName"] = ""],
    [f \in RequiredSet |-> "undefined"] }

\* Faulty variant: the last required field is not validated.
missingFields_dropLast(fd) ==
  SelectSeq(SubSeq(requiredFields, 1, Len(requiredFields) - 1),
            LAMBDA f : Falsy(fd[f]))

\* requiredFields.filter(field => !formData[field])
missingFields(fd) == SelectSeq(requiredFields, LAMBDA f : Falsy(fd[f]))

(***************************************************************************)
(* Child names and the directory name saveFormToFile derives from them.    *)
(* Strings are tuples of one-character strings.                            *)
(***************************************************************************)
NameSamples ==
  << <<"A", "s", "h", "a", " ", "R", "a", "o">>,
     <<"a", "s", "h", "a", "_", "r", "a", "o">> >>

NameIds == 1..Len(NameSamples)

\* The (child name, photo attached) pairs the model submits.
Uploads == {<<1, FALSE>>, <<2, TRUE>>}

\* The characters the model's strings are made of.
Lowers == {"a", "h", "o", "r", "s"}

Uppers == {"A", "H", "O", "R", "S"}

Digits == {"0", "9"}

\* [a-z0-9] under the i flag
IsAlnum(c) == c \in Lowers \cup Uppers \cup Digits

ToLower(c) ==
  CASE c = "A" -> "a" [] c = "H" -> "h" [] c = "O" -> "o" [] c = "R" -> "r"
    [] c = "S" -> "s" [] OTHER -> c

\* Faulty variant: the name is lowercased and nothing is replaced.
sanitizedName_lowerOnly(s) == [i \in 1..Len(s) |-> ToLower(s[i])]

\* formData.childName.replace(/[^a-z0-9]/gi, '_').toLowerCase()
sanitizedName(s) == [i \in 1..Len(s) |-> IF IsAlnum(s[i]) THEN ToLower(s[i]) ELSE "_"]

\* `admission_${sanitizedName}_${timestamp}`
formDir(n, ts) == [prefix |-> "admission_", name |-> sanitizedName(NameSamples[n]), ts |-> ts]

NoDir == [prefix |-> "", name |-> <<>>, ts |-> 0]

(***************************************************************************)
(* Contact bodies and the e-mail pattern.                                  *)
(***************************************************************************)
ContactFields == {"name", "email", "phone", "message"}

EmailSamples ==
  << <<"a", "@", "b", ".", "c">>,
     <<"n", "o", "t", "-", "a", "n">>,
     <<"a", "@", "b">>,
     <<"@", "b", ".", "c">>,
     <<"a", " ", "@", "b", ".", "c">>,
     <<"a", "@", "b", "@", "c", ".", "d">>,
     <<"a", "@", ".", "c">>,
     <<"a", "@", "b", ".">>,
     <<"a", "@", "b", ".", "c", ".", "d">> >>

EmailIds == 1..Len(EmailSamples)

IsSpace(c) == c \in {" ", "\t", "\n"}

\* [^\s@]+ : a non-empty run without whitespace and without "@"
Plain(s, i, j) == i <= j /\ \A k \in i..j : ~IsSpace(s[k]) /\ s[k] # "@"

\* Faulty variant: any "@" between two characters is accepted.
emailRegex_noAnchor(s) ==
  \E a \in 1..Len(s) : s[a] = "@" /\ a > 1 /\ a < Len(s)

\* /^[^\s@]+@[^\s@]+\.[^\s@]+$/.test(email)
emailRegex(s) ==
  \E a \in 1..Len(s) : \E d \in 1..Len(s) :
     /\ s[a] = "@" /\ s[d] = "." /\ a < d
     /\ Plain(s, 1, a - 1) /\ Plain(s, a + 1, d - 1) /\ Plain(s, d + 1, Len(s))

(***************************************************************************)
(* State.                                                                  *)
(*   variant       which server file runs                                  *)
(*   now           Date.now(), in abstract milliseconds                    *)
(*   transporter   index of the adopted emailConfigs entry, 0 for null     *)
(*   activeConfig  index of the adopted configuration, 0 for null          *)
(*   probeLog      outcomes of the verify calls findWorkingConfig made     *)
(*   req           per request: its body, the handler's position, the      *)
(*                 sendMail promise, what the handler did, the response    *)
(*                   saw      what the handler read in `transporter`       *)
(*                   mail     the promise of transporter.sendMail          *)
(*                   timer    a setTimeout races the send                  *)
(*                   ts       Date.now() of the last saveFormToFile call   *)
(*                   renders  calls of generatePDF; rfail: the first one   *)
(*                            rejected                                     *)
(*                   saves    calls of saveFormToFile; saved: the          *)
(*                            directory of a call that completed           *)
(*                   csaves   contact JSON writes begun; csaved: the       *)
(*                            timestamp of one that completed              *)
(*                   status, error, errFields, ref: the response; nres:    *)
(*                            the number of responses sent                 *)
(*   disk          files under temp/admission_* : [dir, file, by]          *)
(*   contacts      files under temp/contacts    : [ts, by]                 *)
(***************************************************************************)
NumConfigs == 3

WtsNumConfigs == 2

emailConfigs == IF variant = "wts" THEN 1..WtsNumConfigs ELSE 1..NumConfigs

NewReq ==
  [kind |-> "none", pc |-> "idle", fd |-> AllPresent, name |-> 1, photo |-> FALSE,
   cfd |-> [f \in ContactFields |-> "v"], email |-> 1,
   saw |-> "unchecked", mail |-> "none", timer |-> FALSE, ts |-> 0,
   renders |-> 0, rfail |-> FALSE, saves |-> 0, saved |-> NoDir,
   csaves |-> 0, csaved |-> 0,
   status |-> 0, error |-> "", errFields |-> <<>>, ref |-> NoDir, nres |-> 0]

Init ==
  /\ variant \in Variants
  /\ now = 1
  /\ transporter = IF variant = "retry" THEN 1 ELSE 0
  /\ activeConfig = 0
  /\ probeLog = <<>>
  /\ req = [r \in Reqs |-> NewReq]
  /\ disk = {}
  /\ contacts = {}
  /\ pdf = Off
  /\ lst = Off
  /\ vec = Off
  /\ call = Off

\* Date.now() advances.
Tick ==
  /\ now < MaxTime
  /\ now' = now + 1
  /\ UNCHANGED <<aux, variant, transporter, activeConfig, probeLog, req, disk, contacts>>

(***************************************************************************)
(* findWorkingConfig and the startup probe.  The candidate under test is   *)
(* the one after those already logged; adopting a candidate ends the loop. *)
(***************************************************************************)
Probing ==
  /\ variant \in {"server", "wts"}
  /\ transporter = 0
  /\ Len(probeLog) < Cardinality(emailConfigs)

probeDone == variant \in {"server", "wts"} /\ ~Probing

\* Faulty variant: a successful verify does not end the loop.
VerifyResolve_continue ==
  /\ Probing
  /\ probeLog' = Append(probeLog, "ok")
  /\ UNCHANGED <<aux, variant, now, transporter, activeConfig, req, disk, contacts>>

\* Faulty variant: the startup code assigns the transporter only.
VerifyResolve_transporterOnly ==
  /\ Probing
  /\ probeLog' = Append(probeLog, "ok")
  /\ transporter' = Len(probeLog) + 1
  /\ UNCHANGED <<aux, variant, now, activeConfig, req, disk, contacts>>

\* verify() resolved first: return { transporter: testTransporter, config },
\* and the startup code assigns transporter and activeConfig.
VerifyResolve ==
  /\ Probing
  /\ probeLog' = Append(probeLog, "ok")
  /\ transporter' = Len(probeLog) + 1
  /\ activeConfig' = Len(probeLog) + 1
  /\ UNCHANGED <<aux, variant, now, req, disk, contacts>>

\* catch (error): log, and the for loop goes on to the next candidate.
VerifyFailed(why) ==
  /\ probeLog' = Append(probeLog, why)
  /\ UNCHANGED <<aux, variant, now, transporter, activeConfig, req, disk, contacts>>

\* verify() rejected.
VerifyReject ==
  /\ Probing
  /\ VerifyFailed("failed")

\* setTimeout(() => reject(new Error('Verification timeout')), 10000) fired
\* first.  The write-then-send server awaits verify() without a timer.
VerifyTimeout ==
  /\ Probing
  /\ variant = "server"
  /\ VerifyFailed("failed")

(***************************************************************************)
(* Responses and the file store.                                           *)
(***************************************************************************)
\* res.status(st).json({...}): the handler returns or ends after it.
Respond(q, st, er, ef, rf) ==
  [q EXCEPT !.pc = "done", !.status = st, !.error = er, !.errFields = ef,
            !.ref = rf, !.nres = @ + 1]

\* The steps of saveFormToFile at which an fs call can reject.
SavePoints(p) == {"none", "ensureDir", "pdf", "json"} \cup (IF p THEN {"photo"} ELSE {})

\* Faulty variant: data.json is never written.
writtenFiles_noJson(p, failAt) ==
  CASE failAt = "ensureDir" -> {}
    [] failAt = "pdf"       -> {"."}
    [] failAt = "photo"     -> {".", "form.pdf"}
    [] OTHER                -> {".", "form.pdf"} \cup (IF p THEN {"photo"} ELSE {})

\* What saveFormToFile has put on disk when it stops at failAt ("." is the
\* directory itself): ensureDir, form.pdf, the photo if any, data.json.
writtenFiles(p, failAt) ==
  CASE failAt = "ensureDir" -> {}
    [] failAt = "pdf"       -> {"."}
    [] failAt = "photo"     -> {".", "form.pdf"}
    [] failAt = "json"      -> {".", "form.pdf"} \cup (IF p THEN {"photo"} ELSE {})
    [] OTHER                -> {".", "form.pdf", "data.json"} \cup (IF p THEN {"photo"} ELSE {})

\* Faulty variant: a failed write of the photo is not reported.
saveResolved_photoOptional(failAt) == failAt \in {"none", "photo"}

\* saveFormToFile returns formDir when none of its awaits rejected.
saveResolved(failAt) == failAt = "none"

\* The disk after request r wrote the files fs into directory d: a file
\* that exists is overwritten, a directory that exists is kept.
diskAfter(d, fs, r) ==
  LET kept == {e \in disk : ~(e.dir = d /\ e.file \in fs)}
      old  == {e \in disk : e.dir = d /\ e.file = "."}
  IN  kept \cup old \cup
      {[dir |-> d, file |-> f, by |-> r] : f \in (IF old = {} THEN fs ELSE fs \ {"."})}

FilesIn(d) == {e.file : e \in {x \in disk : x.dir = d}}

\* The next request to arrive is the lowest idle one.
Arrives(r) ==
  /\ req[r].pc = "idle"
  /\ \A o \in Reqs : o < r => req[o].pc # "idle"

(***************************************************************************)
(* POST /api/admission, src/server.js.                                     *)
(***************************************************************************)
\* Validation and the call of generatePDF (the same code in every variant).
AdmissionStart(r, fd, n, p) ==
  /\ Arrives(r)
  /\ LET q == [req[r] EXCEPT !.kind = "admission", !.fd = fd, !.name = n, !.photo = p]
         m == missingFields(fd)
     IN  req' = [req EXCEPT ![r] =
                   IF Len(m) > 0
                   THEN Respond(q, 400, "Missing fields", m, NoDir)
                   ELSE [q EXCEPT !.pc = "render", !.renders = 1]]
  /\ UNCHANGED <<aux, variant, now, transporter, activeConfig, probeLog, disk, contacts>>

\* const timestamp = Date.now() ... await fs.ensureDir(formDir)
callSave(q) == [q EXCEPT !.ts = now, !.saves = @ + 1]

\* transporter.sendMail(mailOptions) raced against a setTimeout
callSend(q) == [q EXCEPT !.pc = "send", !.mail = "pending", !.timer = TRUE]

\* if (!transporter) saveFormToFile(...) else sendMail raced with 30 s
afterRender(q) ==
  IF transporter = 0
  THEN [callSave(q) EXCEPT !.pc = "save", !.saw = "null"]
  ELSE callSend([q EXCEPT !.saw = "active"])

\* Faulty variant: a rejected render does not end the request.
renderFailed_goOn(q) == afterRender([q EXCEPT !.rfail = TRUE])

\* catch (pdfError): return res.status(500)
renderFailed(q) ==
  Respond([q EXCEPT !.rfail = TRUE], 500, "Failed to generate form", <<>>, NoDir)

\* generatePDF settled.
RenderDone(r, ok) ==
  /\ variant = "server"
  /\ req[r].pc = "render"
  /\ req' = [req EXCEPT ![r] = IF ok THEN afterRender(req[r]) ELSE renderFailed(req[r])]
  /\ UNCHANGED <<aux, variant, now, transporter, activeConfig, probeLog, disk, contacts>>

\* Faulty variant: the catch tries the mail when a transporter has appeared
\* since.
catchAdmission_sendIfReady(q) ==
  IF transporter # 0 /\ q.mail = "none" THEN callSend(q)
  ELSE [q EXCEPT !.pc = "fbRender", !.renders = @ + 1]

\* catch (error): generatePDF is called again for the fallback.
catchAdmission(q) == [q EXCEPT !.pc = "fbRender", !.renders = @ + 1]

\* Faulty variant: the success response carries no reference.
savedOk_noRef(q) ==
  Respond([q EXCEPT !.saved = formDir(q.name, q.ts)], 200, "", <<>>, NoDir)

\* reference: path.basename(savedPath)
savedOk(q) ==
  Respond([q EXCEPT !.saved = formDir(q.name, q.ts)], 200, "", <<>>, formDir(q.name, q.ts))

\* saveFormToFile of the no-transport branch settled.
SaveDone(r, failAt) ==
  /\ variant = "server"
  /\ req[r].pc = "save"
  /\ failAt \in SavePoints(req[r].photo)
  /\ disk' = diskAfter(formDir(req[r].name, req[r].ts), writtenFiles(req[r].photo, failAt), r)
  /\ req' = [req EXCEPT ![r] = IF saveResolved(failAt) THEN savedOk(req[r]) ELSE catchAdmission(req[r])]
  /\ UNCHANGED <<aux, variant, now, transporter, activeConfig, probeLog, contacts>>

\* Faulty variants: a failed send is acknowledged without storing, or is
\* answered with an error without trying the fallback.
sendFailed_ack(q) == Respond(q, 200, "", <<>>, NoDir)

sendFailed_error(q) == Respond(q, 500, "Failed to process", <<>>, NoDir)

\* The race rejected: the catch block of the handler.
sendFailed(q) == catchAdmission(q)

\* Faulty variant: the delivered path reports a reference as well.
sendOk_withRef(q) == Respond(q, 200, "", <<>>, formDir(q.name, now))

\* res.status(200).json({ success: true, message }) after the race resolved.
sendOk(q) == Respond(q, 200, "", <<>>, NoDir)

\* transporter.sendMail settled.  After the timer won the race the handler no
\* longer observes it: only a late delivery is recorded, a late rejection
\* changes nothing.
SendSettle(r, ok) ==
  /\ variant = "server"
  /\ req[r].kind = "admission"
  /\ req[r].mail = "pending"
  /\ req[r].pc = "send" \/ ok
  /\ LET q == [req[r] EXCEPT !.mail = IF ok THEN "resolved" ELSE "rejected"]
     IN  req' = [req EXCEPT ![r] =
                   IF req[r].pc # "send" THEN q
                   ELSE IF ok THEN sendOk(q) ELSE sendFailed(q)]
  /\ UNCHANGED <<aux, variant, now, transporter, activeConfig, probeLog, disk, contacts>>

\* setTimeout(() => reject(new Error('Email timeout')), 30000) fired first.
SendTimeout(r) ==
  /\ variant = "server"
  /\ req[r].pc = "send"
  /\ req[r].timer
  /\ req[r].mail = "pending"
  /\ req' = [req EXCEPT ![r] = sendFailed(req[r])]
  /\ UNCHANGED <<aux, variant, now, transporter, activeConfig, probeLog, disk, contacts>>

\* generatePDF of the catch block settled.
FbRenderDone(r, ok) ==
  /\ variant = "server"
  /\ req[r].pc = "fbRender"
  /\ req' = [req EXCEPT ![r] =
               IF ok THEN [callSave(req[r]) EXCEPT !.pc = "fbSave"]
               ELSE Respond(req[r], 500, "Failed to process", <<>>, NoDir)]
  /\ UNCHANGED <<aux, variant, now, transporter, activeConfig, probeLog, disk, contacts>>

\* saveFormToFile of the catch block settled.
FbSaveDone(r, failAt) ==
  /\ variant = "server"
  /\ req[r].pc = "fbSave"
  /\ failAt \in SavePoints(req[r].photo)
  /\ disk' = diskAfter(formDir(req[r].name, req[r].ts), writtenFiles(req[r].photo, failAt), r)
  /\ req' = [req EXCEPT ![r] =
               IF saveResolved(failAt) THEN savedOk(req[r])
               ELSE Respond(req[r], 500, "Failed to process", <<>>, NoDir)]
  /\ UNCHANGED <<aux, variant, now, transporter, activeConfig, probeLog, contacts>>

(***************************************************************************)
(* POST /api/contact, src/server.js and the write-then-send server.        *)
(***************************************************************************)
AllContact == [f \in ContactFields |-> "v"]

ContactSamples ==
  { AllContact,
    [AllContact EXCEPT !["name"] = "undefined"],
    [AllContact EXCEPT !["email"] = ""],
    [AllContact EXCEPT !["phone"] = "undefined"],
    [AllContact EXCEPT !["message"] = ""] }

\* !name || !email || !phone || !message
contactInvalid(c) ==
  Falsy(c["name"]) \/ Falsy(c["email"]) \/ Falsy(c["phone"]) \/ Falsy(c["message"])

\* Validation, then the no-transport branch or transporter.sendMail, which
\* the contact handler awaits without a timer.
ContactStart(r, c, e) ==
  /\ variant \in {"server", "wts"}
  /\ Arrives(r)
  /\ LET q == [req[r] EXCEPT !.kind = "contact", !.cfd = c, !.email = e]
     IN  req' = [req EXCEPT ![r] =
                   IF contactInvalid(c)
                   THEN Respond(q, 400, "All fields are required", <<>>, NoDir)
                   ELSE IF ~emailRegex(EmailSamples[e])
                   THEN Respond(q, 400, "Invalid email format", <<>>, NoDir)
                   ELSE IF transporter = 0
                   THEN [q EXCEPT !.pc = "cSave", !.saw = "null", !.csaves = 1]
                   ELSE [q EXCEPT !.pc = "cSend", !.saw = "active", !.mail = "pending"]]
  /\ UNCHANGED <<aux, variant, now, transporter, activeConfig, probeLog, disk, contacts>>

\* fs.writeJSON(path.join(contactDir, `contact_${Date.now()}.json`), ...)
contactsAfter(r) == {c \in contacts : c.ts # now} \cup {[ts |-> now, by |-> r]}

\* Faulty variant: the catch only logs.
contactCatchServer_silent(q) == [q EXCEPT !.pc = "done"]

\* catch (error) of src/server.js: res.status(500)
contactCatchServer(q) == Respond(q, 500, "Failed to send message", <<>>, NoDir)

\* catch (error) of the write-then-send server: fall back to the JSON file
contactCatchWts(q) == [q EXCEPT !.pc = "cFbSave", !.csaves = @ + 1]

contactCatch(q) == IF variant = "wts" THEN contactCatchWts(q) ELSE contactCatchServer(q)

\* ensureDir and writeJSON of the no-transport branch settled.
ContactSaveDone(r, ok) ==
  /\ variant \in {"server", "wts"}
  /\ req[r].pc = "cSave"
  /\ contacts' = IF ok THEN contactsAfter(r) ELSE contacts
  /\ req' = [req EXCEPT ![r] =
               IF ok THEN Respond([req[r] EXCEPT !.csaved = now], 200, "", <<>>, NoDir)
               ELSE contactCatch(req[r])]
  /\ UNCHANGED <<aux, variant, now, transporter, activeConfig, probeLog, disk>>

\* await transporter.sendMail(adminMailOptions) settled.
ContactSendSettle(r, ok) ==
  /\ variant \in {"server", "wts"}
  /\ req[r].pc = "cSend"
  /\ req[r].mail = "pending"
  /\ LET q == [req[r] EXCEPT !.mail = IF ok THEN "resolved" ELSE "rejected"]
     IN  req' = [req EXCEPT ![r] =
                   IF ok THEN Respond(q, 200, "", <<>>, NoDir) ELSE contactCatch(q)]
  /\ UNCHANGED <<aux, variant, now, transporter, activeConfig, probeLog, disk, contacts>>

\* ensureDir and writeJSON of the catch block (write-then-send server) settled.
ContactFbSaveDone(r, ok) ==
  /\ variant = "wts"
  /\ req[r].pc = "cFbSave"
  /\ contacts' = IF ok THEN contactsAfter(r) ELSE contacts
  /\ req' = [req EXCEPT ![r] =
               IF ok THEN Respond([req[r] EXCEPT !.csaved = now], 200, "", <<>>, NoDir)
               ELSE Respond(req[r], 500, "Failed to send message", <<>>, NoDir)]
  /\ UNCHANGED <<aux, variant, now, transporter, activeConfig, probeLog, disk>>

(***************************************************************************)
(* POST /api/admission, write-then-send server (part_002).                 *)
(***************************************************************************)
\* generatePDF settled: 500, or "ALWAYS save to file as backup".
WtsRenderDone(r, ok) ==
  /\ variant = "wts"
  /\ req[r].pc = "render"
  /\ req' = [req EXCEPT ![r] =
               IF ok THEN [callSave(req[r]) EXCEPT !.pc = "save"] ELSE renderFailed(req[r])]
  /\ UNCHANGED <<aux, variant, now, transporter, activeConfig, probeLog, disk, contacts>>

\* saveFormToFile settled: the outer catch answers 500; otherwise the mail
\* is tried if a transporter exists, raced against a 10 s timer.
WtsSaveDone(r, failAt) ==
  /\ variant = "wts"
  /\ req[r].pc = "save"
  /\ failAt \in SavePoints(req[r].photo)
  /\ disk' = diskAfter(formDir(req[r].name, req[r].ts), writtenFiles(req[r].photo, failAt), r)
  /\ req' = [req EXCEPT ![r] =
               IF ~saveResolved(failAt) THEN Respond(req[r], 500, "Failed to process", <<>>, NoDir)
               ELSE IF transporter = 0 THEN savedOk([req[r] EXCEPT !.saw = "null"])
               ELSE callSend([req[r] EXCEPT !.saw = "active", !.saved = formDir(req[r].name, req[r].ts)])]
  /\ UNCHANGED <<aux, variant, now, transporter, activeConfig, probeLog, contacts>>

\* sendMail settled: "Always return success (form is saved)".
WtsSendSettle(r, ok) ==
  /\ variant = "wts"
  /\ req[r].kind = "admission"
  /\ req[r].mail = "pending"
  /\ req[r].pc = "send" \/ ok
  /\ LET q == [req[r] EXCEPT !.mail = IF ok THEN "resolved" ELSE "rejected"]
     IN  req' = [req EXCEPT ![r] = IF req[r].pc # "send" THEN q ELSE savedOk(q)]
  /\ UNCHANGED <<aux, variant, now, transporter, activeConfig, probeLog, disk, contacts>>

\* The 10 s timer fired first: catch (emailError) {}, then success.
WtsSendTimeout(r) ==
  /\ variant = "wts"
  /\ req[r].pc = "send"
  /\ req[r].timer
  /\ req[r].mail = "pending"
  /\ req' = [req EXCEPT ![r] = savedOk(req[r])]
  /\ UNCHANGED <<aux, variant, now, transporter, activeConfig, probeLog, disk, contacts>>

(***************************************************************************)
(* POST /api/admission, retry-without-photo server (part_002).  Its        *)
(* transporter is created at load time and there is no file store.         *)
(***************************************************************************)
\* generatePDF settled: on failure, generatePDF(formData, null) is tried.
RetryRenderDone(r, ok) ==
  /\ variant = "retry"
  /\ req[r].pc = "render"
  /\ req' = [req EXCEPT ![r] =
               IF ok THEN callSend([req[r] EXCEPT !.saw = "active"])
               ELSE [req[r] EXCEPT !.pc = "rerender", !.rfail = TRUE, !.renders = @ + 1]]
  /\ UNCHANGED <<aux, variant, now, transporter, activeConfig, probeLog, disk, contacts>>

\* The second generatePDF settled; its rejection reaches the outer catch.
RetryRerenderDone(r, ok) ==
  /\ variant = "retry"
  /\ req[r].pc = "rerender"
  /\ req' = [req EXCEPT ![r] =
               IF ok THEN callSend([req[r] EXCEPT !.saw = "active"])
               ELSE Respond(req[r], 500, "Failed to process", <<>>, NoDir)]
  /\ UNCHANGED <<aux, variant, now, transporter, activeConfig, probeLog, disk, contacts>>

\* sendMail settled: success, or the outer catch answers 500.
RetrySendSettle(r, ok) ==
  /\ variant = "retry"
  /\ req[r].mail = "pending"
  /\ req[r].pc = "send" \/ ok
  /\ LET q == [req[r] EXCEPT !.mail = IF ok THEN "resolved" ELSE "rejected"]
     IN  req' = [req EXCEPT ![r] =
                   IF req[r].pc # "send" THEN q
                   ELSE IF ok THEN sendOk(q)
                   ELSE Respond(q, 500, "Failed to process", <<>>, NoDir)]
  /\ UNCHANGED <<aux, variant, now, transporter, activeConfig, probeLog, disk, contacts>>

\* The 60 s timer fired first: 500 'Email service timeout'.
RetrySendTimeout(r) ==
  /\ variant = "retry"
  /\ req[r].pc = "send"
  /\ req[r].timer
  /\ req[r].mail = "pending"
  /\ req' = [req EXCEPT ![r] = Respond(req[r], 500, "Email service timeout", <<>>, NoDir)]
  /\ UNCHANGED <<aux, variant, now, transporter, activeConfig, probeLog, disk, contacts>>

(***************************************************************************)
(* The system.                                                             *)
(***************************************************************************)
\* An admission request arrives; a body that fails validation carries the
\* first upload sample, as nothing reads its name or photo.
SubmitAdmission ==
  \E r \in Reqs : \E fd \in FormSamples : \E u \in Uploads :
     /\ (\E f \in RequiredSet : Falsy(fd[f])) => u = <<1, FALSE>>
     /\ AdmissionStart(r, fd, u[1], u[2])

\* A contact request arrives; a body with a missing field carries the first
\* e-mail sample, as the pattern is never applied to it.
SubmitContact ==
  \E r \in Reqs : \E c \in ContactSamples : \E e \in EmailIds :
     /\ (\E f \in ContactFields : Falsy(c[f])) => e = 1
     /\ ContactStart(r, c, e)

Next ==
  \/ Tick
  \/ VerifyResolve
  \/ VerifyReject
  \/ VerifyTimeout
  \/ SubmitAdmission
  \/ \E r \in Reqs : \E ok \in BOOLEAN : RenderDone(r, ok)
  \/ \E r \in Reqs : \E f \in SavePoints(TRUE) : SaveDone(r, f)
  \/ \E r \in Reqs : \E ok \in BOOLEAN : SendSettle(r, ok)
  \/ \E r \in Reqs : SendTimeout(r)
  \/ \E r \in Reqs : \E ok \in BOOLEAN : FbRenderDone(r, ok)
  \/ \E r \in Reqs : \E f \in SavePoints(TRUE) : FbSaveDone(r, f)
  \/ SubmitContact
  \/ \E r \in Reqs : \E ok \in BOOLEAN : ContactSaveDone(r, ok)
  \/ \E r \in Reqs : \E ok \in BOOLEAN : ContactSendSettle(r, ok)
  \/ \E r \in Reqs : \E ok \in BOOLEAN : ContactFbSaveDone(r, ok)
  \/ \E r \in Reqs : \E ok \in BOOLEAN : WtsRenderDone(r, ok)
  \/ \E r \in Reqs : \E f \in SavePoints(TRUE) : WtsSaveDone(r, f)
  \/ \E r \in Reqs : \E ok \in BOOLEAN : WtsSendSettle(r, ok)
  \/ \E r \in Reqs : WtsSendTimeout(r)
  \/ \E r \in Reqs : \E ok \in BOOLEAN : RetryRenderDone(r, ok)
  \/ \E r \in Reqs : \E ok \in BOOLEAN : RetryRerenderDone(r, ok)
  \/ \E r \in Reqs : \E ok \in BOOLEAN : RetrySendSettle(r, ok)
  \/ \E r \in Reqs : RetrySendTimeout(r)

Spec == Init /\ [][Next]_vars

\* A timer that was set fires: setTimeout callbacks are always run by the
\* event loop, whereas a verify() or sendMail() promise may never settle.
FairSpec == Spec /\ WF_vars(VerifyTimeout)

(***************************************************************************)
(* Properties.                                                             *)
(***************************************************************************)
Admissions == {r \in Reqs : req[r].kind = "admission"}

Contacts == {r \in Reqs : req[r].kind = "contact"}

\* Request r wrote the complete record (form.pdf, data.json, the photo if
\* one was uploaded) into the directory d, and d is on disk.
RecordOnDisk(r, d) ==
  /\ d # NoDir
  /\ {"form.pdf", "data.json"} \subseteq FilesIn(d)
  /\ req[r].photo => "photo" \in FilesIn(d)
  /\ "." \in FilesIn(d)

\* C1: in src/server.js an admission request answered 200 {success:true}
\* has either had its sendMail resolved, or saveFormToFile completed for it
\* and the response's reference names the directory that was written; a
\* success with neither is unreachable.
C1_SuccessMeansDeliveredOrStored ==
  variant = "server" =>
    \A r \in Admissions :
      req[r].status = 200 =>
        \/ req[r].mail = "resolved"
        \/ /\ req[r].saved # NoDir
           /\ req[r].ref = req[r].saved
           /\ RecordOnDisk(r, req[r].ref)

\* A send that timed out, never resolved, and was answered with success out
\* of the fallback store.
C1_Witness ==
  /\ variant = "server"
  /\ \E r \in Admissions :
       /\ req[r].status = 200
       /\ req[r].saw = "active"
       /\ req[r].mail = "pending"
       /\ req[r].ref # NoDir

\* The required fields a body lacks, read off the body itself.
Lacking(fd) == {f \in RequiredSet : fd[f] = "undefined" \/ fd[f] = ""}

Named(seq) == {seq[i] : i \in 1..Len(seq)}

\* C2: an admission request in which a required field is absent or empty is
\* answered 400 with a message naming every missing field, and generatePDF,
\* sendMail and saveFormToFile are never invoked for it.
C2_MissingFieldsRejected ==
  \A r \in Admissions :
    Lacking(req[r].fd) # {} =>
      /\ req[r].pc = "done"
      /\ req[r].status = 400
      /\ req[r].error = "Missing fields"
      /\ Named(req[r].errFields) = Lacking(req[r].fd)
      /\ req[r].renders = 0
      /\ req[r].mail = "none"
      /\ req[r].saves = 0
      /\ \A e \in disk : e.by # r

\* A body lacking two fields, one empty and one absent, while a transport
\* is active: both are named.
C2_Witness ==
  /\ transporter # 0
  /\ \E r \in Admissions :
       /\ req[r].fd["dateOfBirth"] = "" /\ req[r].fd["tcAttached"] = "undefined"
       /\ req[r].status = 400
       /\ req[r].errFields = <<"dateOfBirth", "tcAttached">>

\* local-part@domain-with-dot, stated on the string: exactly one "@", not at
\* either end, no whitespace, and a "." somewhere after the "@".
AtPositions(s) == {i \in 1..Len(s) : s[i] = "@"}

LooksLikeEmail(s) ==
  /\ Cardinality(AtPositions(s)) = 1
  /\ \A i \in 1..Len(s) : ~IsSpace(s[i])
  /\ \E a \in AtPositions(s) : a > 1 /\ \E d \in (a + 1)..Len(s) : s[d] = "."

\* C3: a contact request whose name, email, phone or message is missing, or
\* whose email is not of the form local-part@domain-with-dot, is answered
\* with a 4xx {error}; no sendMail and no write of temp/contacts/contact_<ts>.json
\* happens for it, whatever the transport state.
C3_InvalidContactRejected ==
  variant = "server" =>
    \A r \in Contacts :
      (\/ \E f \in ContactFields : req[r].cfd[f] \in {"undefined", ""}
       \/ ~LooksLikeEmail(EmailSamples[req[r].email])) =>
        /\ req[r].pc = "done"
        /\ req[r].status \in 400..499
        /\ req[r].error # ""
        /\ req[r].mail = "none"
        /\ req[r].csaves = 0
        /\ \A c \in contacts : c.by # r

\* The malformed address of the spec's scenario is turned away while a
\* transport is active and while none is.
C3_Witness ==
  /\ variant = "server"
  /\ \E r, o \in Contacts :
       /\ req[r].email = 2 /\ req[r].error = "Invalid email format"
       /\ req[o].error = "All fields are required"
       /\ req[r].status = 400 /\ req[o].status = 400
  /\ transporter # 0

\* The directory name the spec gives for the scenario's child name.
AshaRaoDir == <<"a", "s", "h", "a", "_", "r", "a", "o">>

\* C4: with no transport active, a valid admission whose render and file
\* writes succeed is answered {success:true} with a reference equal to the
\* name of a directory admission_<sanitized-name>_<ts> that holds form.pdf
\* and data.json (and the photo if one was submitted); no send is attempted.
C4_NoTransportStores ==
  variant = "server" =>
    \A r \in Admissions :
      (req[r].saw = "null" /\ req[r].pc = "done" /\ req[r].renders = 1 /\ req[r].saves = 1) =>
        /\ req[r].status = 200
        /\ req[r].ref = [prefix |-> "admission_", name |-> AshaRaoDir, ts |-> req[r].ts]
        /\ req[r].ts \in 1..now
        /\ RecordOnDisk(r, req[r].ref)
        /\ req[r].mail = "none"

\* The no-transport path taken with a photo attached.
C4_Witness ==
  /\ variant = "server"
  /\ transporter = 0
  /\ \E r \in Admissions :
       /\ req[r].saw = "null" /\ req[r].photo
       /\ req[r].status = 200 /\ req[r].renders = 1 /\ req[r].saves = 1
       /\ "photo" \in FilesIn(req[r].ref)

\* C5: every valid admission whose PDF rendered is persisted to the fallback
\* store unconditionally: on every path that ends in a success response,
\* the delivered one included, saveFormToFile has run for the submission.
C5_AlwaysPersisted ==
  variant \in {"server", "wts"} =>
    \A r \in Admissions :
      req[r].status = 200 => req[r].saves >= 1 /\ req[r].saved # NoDir

\* C5 as amended: the write-then-send server persists before it tries the
\* mail, so each of its success responses follows a completed saveFormToFile;
\* src/server.js calls saveFormToFile only on the no-transport path and in
\* its catch block, and a submission delivered within the timeout is
\* answered with success without any file written for it.
C5_PersistedWhereWritten ==
  /\ variant = "wts" =>
       \A r \in Admissions :
         /\ req[r].mail # "none" => req[r].saved # NoDir
         /\ req[r].status = 200 =>
              /\ req[r].saves = 1
              /\ req[r].ref = req[r].saved
              /\ RecordOnDisk(r, req[r].saved)
  /\ variant = "server" =>
       \A r \in Admissions :
         /\ (req[r].saves >= 1 /\ req[r].saw = "active") => req[r].renders = 2
         /\ req[r].status = 200 =>
              /\ (req[r].ref = NoDir) = (req[r].saved = NoDir)
              /\ req[r].saved = NoDir =>
                   /\ req[r].mail = "resolved"
                   /\ req[r].saves = 0
                   /\ \A e \in disk : e.by # r

\* src/server.js delivered the mail and answered success with nothing stored.
C5_Witness ==
  /\ variant = "server"
  /\ \E r \in Admissions :
       /\ req[r].status = 200
       /\ req[r].mail = "resolved"
       /\ req[r].saves = 0
       /\ req[r].photo

\* C6: in src/server.js, when the send of a valid admission is rejected or
\* exceeds the 30 s timeout, the handler falls back to saveFormToFile and
\* answers 200 {success:true, reference}; it answers 5xx only if the
\* fallback (re-render plus file writes) itself fails.
C6_DeliveryFailureFallsBack ==
  variant = "server" =>
    \A r \in Admissions :
      req[r].saw = "active" =>
        /\ req[r].pc \in {"send", "fbRender", "fbSave", "done"}
        /\ req[r].pc \in {"send", "fbRender", "fbSave"} => req[r].status = 0
        /\ req[r].pc = "done" =>
             \/ req[r].renders = 1 /\ req[r].mail = "resolved"
                  /\ req[r].status = 200 /\ req[r].ref = NoDir
             \/ req[r].renders = 2 /\ req[r].saved # NoDir
                  /\ req[r].status = 200 /\ req[r].ref = req[r].saved
                  /\ RecordOnDisk(r, req[r].ref)
             \/ req[r].renders = 2 /\ req[r].saved = NoDir
                  /\ req[r].status = 500

\* A rejected send answered with success and a reference, and a send whose
\* fallback failed answered 500.
C6_Witness ==
  /\ variant = "server"
  /\ \E r, o \in Admissions :
       /\ req[r].mail = "rejected" /\ req[r].status = 200 /\ req[r].ref # NoDir
       /\ req[o].saw = "active" /\ req[o].status = 500 /\ req[o].saves = 1

\* C7: for a valid contact submission whose delivery fails (no transport,
\* or sendMail rejects) the handler writes the submission as a JSON file
\* and answers success; it answers with an error only when that JSON
\* persistence failed as well.
C7_ContactFallsBack ==
  variant \in {"server", "wts"} =>
    \A r \in Contacts :
      (req[r].saw # "unchecked" /\ req[r].status >= 400) =>
        req[r].csaves >= 1 /\ req[r].csaved = 0

\* C8: if generatePDF rejects for a valid admission, the request ends with
\* a 5xx response and neither a send nor a fallback write is made for it;
\* the rendering failure is terminal and is not retried.
C8_RenderFailureTerminal ==
  \A r \in Admissions :
    req[r].rfail =>
      /\ req[r].pc = "done"
      /\ req[r].status >= 500
      /\ req[r].mail = "none"
      /\ req[r].saves = 0
      /\ req[r].renders = 1

\* C8 as amended: in src/server.js and in the write-then-send server a
\* rejection of generatePDF is terminal (5xx, no send, no write, no retry);
\* the retry-without-photo server calls generatePDF once more without the
\* photo, goes on to the send if that succeeds, and answers 5xx without a
\* send only if the second render rejects too.
C8_RenderFailureTerminalOrOneRetry ==
  \A r \in Admissions :
    req[r].rfail =>
      /\ req[r].saves = 0
      /\ \A e \in disk : e.by # r
      /\ variant \in {"server", "wts"} =>
           /\ req[r].pc = "done"
           /\ req[r].status >= 500
           /\ req[r].mail = "none"
           /\ req[r].renders = 1
      /\ variant = "retry" =>
           /\ req[r].renders = 2
           /\ req[r].pc \in {"rerender", "send", "done"}
           /\ (req[r].pc = "done" /\ req[r].mail = "none") => req[r].status >= 500

\* src/server.js gave up after a rejected render although a transport was
\* active.
C8_Witness ==
  /\ variant = "server"
  /\ transporter # 0
  /\ \E r \in Admissions : req[r].rfail /\ req[r].status = 500 /\ req[r].photo

\* C9: every send attempt of src/server.js, admission and contact alike, is
\* bounded by a timeout: while a handler awaits transporter.sendMail a timer
\* is armed that ends the wait, so the handler never hangs on the transport.
C9_EverySendHasTimeout ==
  variant = "server" =>
    \A r \in Reqs :
      (req[r].pc \in {"send", "cSend"} /\ req[r].mail = "pending") => req[r].timer

\* What findWorkingConfig has returned once its loop is over.
ReturnedNull == probeDone /\ transporter = 0

ProbeOrder ==
  variant = "server" =>
    /\ Len(probeLog) <= NumConfigs
    /\ \A i \in 1..Len(probeLog) :
         probeLog[i] = "ok" => i = Len(probeLog) /\ transporter = i /\ activeConfig = i
    /\ transporter # 0 => Len(probeLog) = transporter /\ probeLog[transporter] = "ok"
    /\ ReturnedNull <=>
         (Len(probeLog) = NumConfigs /\ \A i \in 1..NumConfigs : probeLog[i] = "failed")

ProbeStep ==
  /\ probeLog' # probeLog =>
       /\ Len(probeLog') = Len(probeLog) + 1
       /\ SubSeq(probeLog', 1, Len(probeLog)) = probeLog
       /\ transporter = 0
  /\ (VerifyReject \/ VerifyTimeout) =>
       probeLog' = Append(probeLog, "failed") /\ transporter' = 0

\* C10: findWorkingConfig probes the candidates in list order, one at a
\* time; it adopts the lowest-index candidate whose verify succeeds within
\* 10 s and probes none after it, takes a verify error or a 10 s timeout as
\* the failure of that candidate and moves on, returns the no-transport
\* state iff every candidate failed, and always terminates.
C10_ProbeInOrderAndTerminates ==
  /\ []ProbeOrder
  /\ [][ProbeStep]_vars
  /\ (variant = "server") => <>probeDone

\* The first two candidates failed and the third was adopted.
C10_Witness ==
  /\ variant = "server"
  /\ probeLog = <<"failed", "failed", "ok">>
  /\ transporter = 3

(***************************************************************************)
(* The servers at rest: the state of a server of variant v that has        *)
(* received nothing yet.  The specifications of single functions below     *)
(* keep the servers in this state.                                         *)
(***************************************************************************)
AtRest(v) ==
  /\ variant = v
  /\ now = 1
  /\ transporter = IF v = "retry" THEN 1 ELSE 0
  /\ activeConfig = 0
  /\ probeLog = <<>>
  /\ req = [r \in Reqs |-> NewReq]
  /\ disk = {}
  /\ contacts = {}

(***************************************************************************)
(* verifyEmailConnection(retries) of the retry-without-photo server        *)
(* (src/unnamed/part_002, 1635-1652).                                      *)
(*   vec.i        the loop variable                                        *)
(*   vec.log      the outcomes of the transporter.verify() calls settled   *)
(*   vec.calls    the number of transporter.verify() calls made            *)
(*   vec.waits    the number of timers set                                 *)
(*   vec.waited   the milliseconds spent in the timers that fired          *)
(***************************************************************************)
MaxRetries == 8

RetryDelay == 5000

DefaultRetries == 3

\* for (let i = 0; i < retries; i++) { try { await transporter.verify() ...
\* } return false
loopTest(v) ==
  IF v.i < v.retries
    THEN [v EXCEPT !.pc = "verify", !.calls = @ + 1]
    ELSE [v EXCEPT !.pc = "returned", !.result = "false"]

InitVerify ==
  /\ AtRest("retry")
  /\ pdf = Off
  /\ lst = Off
  /\ call = Off
  /\ \E n \in 0..MaxRetries :
       vec = [pc |-> "call", retries |-> n, i |-> 0, log |-> <<>>, calls |-> 0,
              waits |-> 0, waited |-> 0, result |-> "none"]

\* The call runs to its first await.
VecCall ==
  /\ vec.pc = "call"
  /\ vec' = loopTest(vec)
  /\ UNCHANGED <<main, pdf, lst, call>>

\* Faulty variant: the timer is set after the last failure as well.
verifyFailed_alwaysWait(v) ==
  [v EXCEPT !.pc = "wait", !.waits = @ + 1]

\* catch (error) { if (i === retries - 1) return false; await 5 s timer }
verifyFailed(v) ==
  IF v.i = v.retries - 1
    THEN [v EXCEPT !.pc = "returned", !.result = "false"]
    ELSE [v EXCEPT !.pc = "wait", !.waits = @ + 1]

\* await transporter.verify() settles: resolved (ok) or rejected.
VecVerifySettle(ok) ==
  /\ vec.pc = "verify"
  /\ LET v == [vec EXCEPT !.log = Append(@, IF ok THEN "ok" ELSE "err")]
     IN vec' = IF ok THEN [v EXCEPT !.pc = "returned", !.result = "true"]
                     ELSE verifyFailed(v)
  /\ UNCHANGED <<main, pdf, lst, call>>

\* The 5 s timer fires; i++ and the loop test.
VecWaitDone ==
  /\ vec.pc = "wait"
  /\ vec' = loopTest([vec EXCEPT !.i = @ + 1, !.waited = @ + RetryDelay])
  /\ UNCHANGED <<main, pdf, lst, call>>

VecVerifyResolve ==
  /\ vec.i < vec.retries
  /\ VecVerifySettle(TRUE)

VecVerifyReject ==
  /\ vec.i < vec.retries
  /\ VecVerifySettle(FALSE)

NextVerify ==
  \/ VecCall
  \/ VecVerifyResolve
  \/ VecVerifyReject
  \/ VecWaitDone

SpecVerify == InitVerify /\ [][NextVerify]_vars

\* Every transporter.verify() settles and every timer fires.
FairSpecVerify == SpecVerify /\ WF_vars(NextVerify)

Errs(log) == Cardinality({k \in 1..Len(log) : log[k] = "err"})

\* What a verifyEmailConnection call has done so far is within the bounds of
\* its parameter.
VecBounded ==
  /\ vec.calls <= vec.retries
  /\ vec.calls <= vec.i + 1
  /\ vec.waited = RetryDelay * (vec.calls - 1) \/ vec.calls = 0
  /\ vec.pc = "wait" => /\ vec.calls < vec.retries
                        /\ vec.waits = Errs(vec.log)
                        /\ vec.waits = vec.calls
  /\ vec.pc = "verify" => vec.waits = vec.calls - 1 /\ Errs(vec.log) = vec.calls - 1
  /\ vec.pc = "returned" =>
       /\ vec.result \in {"true", "false"}
       /\ vec.result = "true" <=>
            /\ Len(vec.log) > 0
            /\ vec.log[Len(vec.log)] = "ok"
       /\ \A k \in 1..(Len(vec.log) - 1) : vec.log[k] = "err"
       /\ vec.result = "false" => /\ vec.calls = vec.retries
                                  /\ Errs(vec.log) = vec.retries
       /\ vec.waits = IF vec.calls = 0 THEN 0 ELSE vec.calls - 1
       /\ vec.waited = RetryDelay * vec.waits

\* C20: verifyEmailConnection(retries) calls transporter.verify() at most
\* `retries` times, waits 5 s after every failed call but the last, returns
\* true at the first call that succeeds and false when the last fails, and
\* returns in the end when every call settles.
C20_VerifyBoundedAndTerminates ==
  /\ []VecBounded
  /\ <>(vec.pc = "returned")

\* The default call has failed three times, waited twice and returned false.
C20_Witness ==
  /\ vec.pc = "returned"
  /\ vec.retries = DefaultRetries
  /\ vec.result = "false"
  /\ vec.log = <<"err", "err", "err">>
  /\ vec.waited = 2 * RetryDelay

(***************************************************************************)
(* The active transport (src/server.js, 124-125 and 168-178).              *)
(***************************************************************************)
\* transporter and activeConfig are both null, or both come from the same
\* candidate of the probe.
TransportCoupled ==
  variant = "server" =>
    /\ (transporter = 0) <=> (activeConfig = 0)
    /\ activeConfig = transporter
    /\ transporter # 0 => /\ transporter \in emailConfigs
                          /\ probeLog[Len(probeLog)] = "ok"
                          /\ transporter = Len(probeLog)

\* A step changes the two only from null, both at once, and it is the step of
\* the probe whose verify resolved.
TransportStep ==
  variant = "server" =>
    /\ transporter # 0 => transporter' = transporter /\ activeConfig' = activeConfig
    /\ (transporter' # transporter \/ activeConfig' # activeConfig) =>
         /\ transporter = 0 /\ activeConfig = 0
         /\ transporter' # 0 /\ activeConfig' # 0
         /\ probeLog' = Append(probeLog, "ok")
         /\ req' = req

\* C19: in src/server.js transporter and activeConfig are assigned only by the
\* startup probe and together: they are both null or both non-null in every
\* state, and once non-null they never change.
C19_TransportAssignedOnceTogether ==
  /\ []TransportCoupled
  /\ [][TransportStep]_vars

\* The probe adopted its second candidate, and an admission has been mailed
\* through it since.
C19_Witness ==
  /\ variant = "server"
  /\ transporter = 2 /\ activeConfig = 2
  /\ \E r \in Reqs : req[r].kind = "admission" /\ req[r].mail = "resolved" /\ req[r].status = 200

(***************************************************************************)
(* The names of the stored admissions (saveFormToFile, src/server.js       *)
(* 181-204).                                                               *)
(***************************************************************************)
\* C18: two admissions that saveFormToFile has persisted never share a
\* directory.
C18_DirectoriesUnique ==
  variant = "server" =>
    \A r \in Admissions : \A o \in Admissions \ {r} :
      (req[r].saved # NoDir /\ req[o].saved # NoDir) =>
        req[r].saved # req[o].saved

PageBottom == 842

FirstY == 140

NoPhotoGap == 20

PhotoTitleHeight == 25

PhotoFrameHeight == 120

PhotoAdvance == 140

PageBreakAt == 700

TopMargin == 50

TitleHeight == 25

rowHeight == 25

SectionGap == 20

CaughtAdvance == 50

Groups == {"child", "father", "mother", "academic"}

\* The values a text field of req.body takes: not sent, empty, blanks only,
\* the literal text N/A, any other text.
TextValues == {"undef", "", " ", "N/A", "v"}

truthy(v) == v \notin {"undef", ""}

\* v.trim()
trim(v) == IF v = " " THEN "" ELSE v

\* The seven fields of a relative: name, nationality, occupation, office
\* address, distance, permanent address, income.
RelativeFields == 1..7

Relative(name, n, v) ==
  [k \in RelativeFields |-> IF k = 1 THEN name ELSE IF k <= n + 1 THEN v ELSE "undef"]

RelativeSamples ==
  {Relative("v", n, "v") : n \in 0..6} \cup
  {Relative("undef", 0, "v"), Relative("", 6, "v"), Relative(" ", 6, "v"),
   Relative("N/A", 0, "v"), Relative("N/A", 6, "v"), Relative("v", 6, " "),
   Relative("v", 3, "N/A")}

PhotoValues == {"none", "ok", "corrupt"}

\* Where a call of doc throws: nowhere, at the title of a group, or inside
\* createStyledTable for a group, after its header row.
FailPoints ==
  {[at |-> "none", group |-> "child"]} \cup
  {[at |-> a, group |-> g] : a \in {"title", "table"}, g \in Groups}

ChildRows == 6

AcademicRows == 3

\* The fourth child field is bloodGroup, which the handler does not require.
BloodGroup == 4

\* The six child fields and the three academic fields of formData: all
\* sent, bloodGroup not sent, or bloodGroup and howKnow sent empty.
FixedSamples ==
  {[child |-> [k \in 1..ChildRows |-> "v"], academic |-> [k \in 1..AcademicRows |-> "v"]],
   [child |-> [k \in 1..ChildRows |-> IF k = BloodGroup THEN "undef" ELSE "v"],
    academic |-> [k \in 1..AcademicRows |-> "v"]],
   [child |-> [k \in 1..ChildRows |-> IF k = BloodGroup THEN "" ELSE "v"],
    academic |-> [k \in 1..AcademicRows |-> IF k = AcademicRows THEN "" ELSE "v"]]}

PdfInputs ==
  [photo : PhotoValues, fixed : FixedSamples, father : RelativeSamples,
   mother : RelativeSamples, guardianName : {"undef", "v"}, fail : FailPoints]

\* formData.<group>Name && formData.<group>Name.trim()
named(rel) == truthy(rel[1]) /\ truthy(trim(rel[1]))

\* value || 'N/A'
orNA(v) == IF truthy(v) THEN v ELSE "N/A"

\* Faulty variant: the filter keeps the rows that show N/A.
keepRow_keepNA(v) == truthy(v)

keepRow(v) == truthy(v) /\ v # "N/A"

\* [...].filter(row => row[1] && row[1] !== 'N/A'): the values of the rows
\* that stay.
relativeData(rel) == SelectSeq([k \in RelativeFields |-> orNA(rel[k])], keepRow)

\* childData and academicData: every row, each value || 'N/A'.
fixedData(vals) == [k \in DOMAIN vals |-> orNA(vals[k])]

\* const cellText = cell?.toString() || 'N/A'
cellText(v) == IF truthy(v) THEN v ELSE "N/A"

Block(kind, g, d, top, bottom, rows, whole) ==
  [kind |-> kind, group |-> g, page |-> d.page, top |-> top, bottom |-> bottom,
   rows |-> rows, whole |-> whole, cells |-> <<>>]

draw(d, b) == [d EXCEPT !.blocks = Append(@, b)]

\* catch (error) { reject(error) } of generatePDF
rejected(d) == [d EXCEPT !.pc = "done", !.outcome = "rejected"]

\* Faulty variant: the page is never changed.
needsPage_never(y) == FALSE

\* if (currentY > 700)
needsPage(y) == y > PageBreakAt

\* if (currentY > 700) { doc.addPage(); currentY = 50 }
pageCheck(d) ==
  IF needsPage(d.y) THEN [d EXCEPT !.page = @ + 1, !.y = TopMargin, !.breaks = @ + 1] ELSE d

\* The page check, the title of a section and currentY += 25.
sectionTitle(d, g) ==
  LET c == pageCheck(d)
  IN  IF d.in.fail = [at |-> "title", group |-> g]
      THEN rejected(c)
      ELSE [draw(c, Block("title", g, c, c.y, c.y + TitleHeight, 0, TRUE))
              EXCEPT !.y = @ + TitleHeight]

\* Faulty variant: an error inside createStyledTable is thrown on.
tableFailed_rethrow(d, g) == rejected(d)

\* catch (error) { console.error(...); return startY + 50 } of
\* createStyledTable: the header row is drawn, the data rows are not.
tableFailed(d, g) ==
  [draw(d, Block("table", g, d, d.y, d.y + rowHeight, 0, FALSE))
     EXCEPT !.y = @ + CaughtAdvance]

\* createStyledTable(doc, headers, data, startY, columnWidths): the header
\* row and one row for each value of data, 25 each, the value shown as
\* cellText; returns yPosition.
createStyledTable(d, g, data) ==
  LET n == Len(data)
      b == Block("table", g, d, d.y, d.y + rowHeight * (1 + n), n, TRUE)
  IN  IF d.in.fail = [at |-> "table", group |-> g]
      THEN tableFailed(d, g)
      ELSE [draw(d, [b EXCEPT !.cells = [k \in 1..n |-> cellText(data[k])]])
              EXCEPT !.y = @ + rowHeight * (1 + n)]

gap(d) == IF d.outcome = "rejected" THEN d ELSE [d EXCEPT !.y = @ + SectionGap]

\* Faulty variant: a photo that cannot be decoded ends the rendering.
photoBlock_noCatch(d) ==
  LET t == [draw(d, Block("title", "photo", d, d.y, d.y + PhotoTitleHeight, 0, TRUE))
              EXCEPT !.y = @ + PhotoTitleHeight]
  IN  IF d.in.photo = "corrupt"
      THEN rejected(t)
      ELSE [draw(t, Block("photo", "photo", t, t.y, t.y + PhotoFrameHeight, 0, TRUE))
              EXCEPT !.y = @ + PhotoAdvance]

\* The photo section: title, frame, doc.image or, when it throws, the text
\* 'Photo unavailable' in the frame; currentY += 140 after either.
photoBlock(d) ==
  LET t == [draw(d, Block("title", "photo", d, d.y, d.y + PhotoTitleHeight, 0, TRUE))
              EXCEPT !.y = @ + PhotoTitleHeight]
      kind == IF d.in.photo = "corrupt" THEN "placeholder" ELSE "photo"
  IN  [draw(t, Block(kind, "photo", t, t.y, t.y + PhotoFrameHeight, 0, TRUE))
         EXCEPT !.y = @ + PhotoAdvance]

\* if (photoBuffer && photoBuffer.length > 0) {...} else currentY += 20
photoSection(d) ==
  LET e == IF d.in.photo = "none" THEN [d EXCEPT !.y = @ + NoPhotoGap] ELSE photoBlock(d)
  IN  IF e.outcome = "rejected" THEN e ELSE [e EXCEPT !.pc = "child"]

\* CHILD INFORMATION: six rows, each value || 'N/A'.
childSection(d) ==
  LET t == sectionTitle(d, "child")
  IN  IF t.outcome = "rejected" THEN t
      ELSE [gap(createStyledTable(t, "child", fixedData(d.in.fixed.child))) EXCEPT !.pc = "father"]

\* FATHER DETAILS / MOTHER DETAILS: only for a name that is not blank; the
\* table only if a row is left.
relativeSection(d, g, rel, next) ==
  IF ~named(rel) THEN [d EXCEPT !.pc = next]
  ELSE LET t == sectionTitle(d, g)
           data == relativeData(rel)
       IN  IF t.outcome = "rejected" THEN t
           ELSE IF Len(data) > 0 THEN [gap(createStyledTable(t, g, data)) EXCEPT !.pc = next]
           ELSE [t EXCEPT !.pc = next]

\* ACADEMIC INFORMATION: three rows, then doc.end().
academicSection(d) ==
  LET t == sectionTitle(d, "academic")
  IN  IF t.outcome = "rejected" THEN t
      ELSE [createStyledTable(t, "academic", fixedData(d.in.fixed.academic)) EXCEPT !.pc = "end"]

\* doc.on('end', ...): resolve(Buffer.concat(chunks))
endEvent(d) == [d EXCEPT !.pc = "done", !.outcome = "resolved"]

\* let currentY = 140, after the header band of the first page.
newDoc(in) ==
  [pc |-> "photo", in |-> in, y |-> FirstY, page |-> 1, breaks |-> 0,
   blocks |-> <<>>, outcome |-> "pending"]

\* The whole of generatePDF(formData, photoBuffer).
stepPdf(d) ==
  CASE d.pc = "photo"    -> photoSection(d)
    [] d.pc = "child"    -> childSection(d)
    [] d.pc = "father"   -> relativeSection(d, "father", d.in.father, "mother")
    [] d.pc = "mother"   -> relativeSection(d, "mother", d.in.mother, "academic")
    [] d.pc = "academic" -> academicSection(d)
    [] d.pc = "end"      -> endEvent(d)
    [] OTHER             -> d

generatePDF(in) == stepPdf(stepPdf(stepPdf(stepPdf(stepPdf(stepPdf(newDoc(in)))))))

InitPdf ==
  /\ AtRest("server")
  /\ lst = Off
  /\ vec = Off
  /\ call = Off
  /\ \E in \in PdfInputs : pdf = newDoc(in)

\* The photo section, or the gap that stands for it.
PdfPhoto ==
  /\ pdf.pc = "photo"
  /\ pdf' = stepPdf(pdf)
  /\ UNCHANGED <<main, lst, vec, call>>

\* CHILD INFORMATION.
PdfChild ==
  /\ pdf.pc = "child"
  /\ pdf' = stepPdf(pdf)
  /\ UNCHANGED <<main, lst, vec, call>>

\* FATHER DETAILS.
PdfFather ==
  /\ pdf.pc = "father"
  /\ pdf' = stepPdf(pdf)
  /\ UNCHANGED <<main, lst, vec, call>>

\* MOTHER DETAILS.
PdfMother ==
  /\ pdf.pc = "mother"
  /\ pdf' = stepPdf(pdf)
  /\ UNCHANGED <<main, lst, vec, call>>

\* ACADEMIC INFORMATION and doc.end().
PdfAcademic ==
  /\ pdf.pc = "academic"
  /\ pdf' = stepPdf(pdf)
  /\ UNCHANGED <<main, lst, vec, call>>

\* The 'end' event of the document.
PdfEnd ==
  /\ pdf.pc = "end"
  /\ pdf' = stepPdf(pdf)
  /\ UNCHANGED <<main, lst, vec, call>>

NextPdf ==
  \/ PdfPhoto
  \/ PdfChild
  \/ PdfFather
  \/ PdfMother
  \/ PdfAcademic
  \/ PdfEnd

SpecPdf == InitPdf /\ [][NextPdf]_vars

(***************************************************************************)
(* Properties of the rendered document.                                    *)
(***************************************************************************)
Tables(d) == {k \in 1..Len(d.blocks) : d.blocks[k].kind = "table"}

Titles(d) == {k \in 1..Len(d.blocks) : d.blocks[k].kind = "title" /\ d.blocks[k].group \in Groups}

One(b) == IF b THEN 1 ELSE 0

\* Nothing threw while the document was drawn, and it is complete.
Rendered == pdf.pc = "done" /\ pdf.outcome = "resolved" /\ pdf.in.fail.at = "none"

\* C11: the rendered document has the child and the academic table and one
\* more table for each of father, mother and guardian whose name is not
\* blank, and no other.
C11_SectionPerNamedGroup ==
  Rendered =>
    Cardinality(Tables(pdf)) =
      2 + One(named(pdf.in.father)) + One(named(pdf.in.mother))
        + One(truthy(trim(pdf.in.guardianName)))

\* Block b of a document whose photo could not be decoded is block c of the
\* document drawn from the same input with a valid photo.
SameBlock(b, c) ==
  \/ b = c
  \/ /\ b.kind = "placeholder" /\ c.kind = "photo"
     /\ [b EXCEPT !.kind = "photo"] = c

\* C12: when doc.image throws for the photo supplied, generatePDF draws the
\* placeholder in the frame and goes on as with a valid photo: the cursor
\* after the photo section, every block after it, the pages and the outcome
\* are the same, and the promise resolves if nothing else fails.
C12_PhotoFailureNonFatal ==
  pdf.in.photo = "corrupt" =>
    /\ pdf.pc = "child" =>
         /\ pdf.y = FirstY + PhotoTitleHeight + PhotoAdvance
         /\ pdf.blocks[2].kind = "placeholder"
    /\ pdf.pc = "done" =>
         LET g == generatePDF([pdf.in EXCEPT !.photo = "ok"])
         IN  /\ pdf.outcome = g.outcome
             /\ pdf.in.fail.at = "none" => pdf.outcome = "resolved"
             /\ pdf.y = g.y /\ pdf.page = g.page
             /\ Len(pdf.blocks) = Len(g.blocks)
             /\ \A k \in 1..Len(pdf.blocks) : SameBlock(pdf.blocks[k], g.blocks[k])
             /\ \E k \in 1..Len(pdf.blocks) : pdf.blocks[k].kind = "placeholder"

\* A document with the placeholder, a full father table and the academic
\* table on a second page has been resolved.
C12_Witness ==
  /\ Rendered
  /\ pdf.in.photo = "corrupt"
  /\ \E k \in Tables(pdf) : pdf.blocks[k].group = "father" /\ pdf.blocks[k].rows = 7
  /\ \E k \in Tables(pdf) : pdf.blocks[k].group = "academic" /\ pdf.blocks[k].page = 2

\* C15: no section title and no table row is drawn below the bottom of the
\* A4 page, whatever the photo and the rows of the optional groups.
C15_NothingBelowPageBottom ==
  pdf.in.fail.at = "none" =>
    \A k \in 1..Len(pdf.blocks) : pdf.blocks[k].bottom <= PageBottom

Full(rel) == named(rel) /\ Len(relativeData(rel)) = 7

\* C16: a rendered document with a photo and with the father and the mother
\* group filled in all seven rows has at least one page break and more than
\* one page; one with no photo and neither group has no page break and a
\* single page.
C16_PageBreaks ==
  Rendered =>
    /\ (pdf.in.photo # "none" /\ Full(pdf.in.father) /\ Full(pdf.in.mother)) =>
         /\ pdf.breaks >= 1
         /\ pdf.page > 1
    /\ (pdf.in.photo = "none" /\ ~named(pdf.in.father) /\ ~named(pdf.in.mother)) =>
         /\ pdf.breaks = 0
         /\ pdf.page = 1
         /\ Cardinality(Tables(pdf)) = 2

\* The full document: the mother section opens the second page and the
\* academic table follows it there.
C16_Witness ==
  /\ Rendered
  /\ pdf.in.photo = "ok" /\ Full(pdf.in.father) /\ Full(pdf.in.mother)
  /\ pdf.breaks = 1
  /\ \E k \in Titles(pdf) :
       /\ pdf.blocks[k].group = "mother"
       /\ pdf.blocks[k].page = 2
       /\ pdf.blocks[k].top = TopMargin

\* The section of group g is reached when nothing before it rejects.
Emitted(g) ==
  \/ g \in {"child", "academic"}
  \/ g = "father" /\ named(pdf.in.father)
  \/ g = "mother" /\ named(pdf.in.mother)

\* C17 as stated: generatePDF never resolves with a document in which a
\* table is missing or partly drawn; a failure while a table is drawn
\* rejects.
C17_AllOrNothing ==
  pdf.outcome = "resolved" => \A k \in Tables(pdf) : pdf.blocks[k].whole

\* C17, amended: generatePDF rejects exactly when a step of its own body
\* throws; an error inside createStyledTable is caught there, the table is
\* left partly drawn, the cursor goes on from startY + 50, the later
\* sections are drawn and the promise resolves.
C17_RejectsOutsideTablesOnly ==
  pdf.pc = "done" =>
    /\ pdf.outcome = "rejected" <=>
         (pdf.in.fail.at = "title" /\ Emitted(pdf.in.fail.group))
    /\ \A k \in Tables(pdf) :
         /\ ~pdf.blocks[k].whole <=>
              (pdf.in.fail.at = "table" /\ pdf.in.fail.group = pdf.blocks[k].group)
         /\ (~pdf.blocks[k].whole /\ k < Len(pdf.blocks)
                /\ pdf.blocks[k + 1].page = pdf.blocks[k].page) =>
              pdf.blocks[k + 1].top = pdf.blocks[k].top + CaughtAdvance + SectionGap
    /\ pdf.outcome = "resolved" =>
         \E k \in Tables(pdf) : pdf.blocks[k].group = "academic"
    /\ pdf.outcome = "rejected" =>
         \A k \in 1..Len(pdf.blocks) : pdf.blocks[k].group # pdf.in.fail.group

\* createStyledTable threw while the father table was drawn: the document
\* is resolved with the header row of that table only, and with the mother
\* and the academic sections after it.
C17_Witness ==
  /\ pdf.pc = "done" /\ pdf.outcome = "resolved"
  /\ pdf.in.fail = [at |-> "table", group |-> "father"]
  /\ \E k \in Tables(pdf) :
       /\ pdf.blocks[k].group = "father" /\ ~pdf.blocks[k].whole
       /\ pdf.blocks[k + 1].group = "mother"
       /\ pdf.blocks[k + 1].top = pdf.blocks[k].top + CaughtAdvance + SectionGap
  /\ \E k \in Tables(pdf) : pdf.blocks[k].group = "academic" /\ pdf.blocks[k].whole

(***************************************************************************)
(* GET /api/admin/forms of src/server.js (677-712): one run of the         *)
(* handler over the entries of temp/.                                      *)
(*   lst.items    what readdir returns, in its order                       *)
(*   lst.k        the entry the for loop is at                             *)
(*   lst.forms    the entries pushed to forms, by their place in items     *)
(*   lst.logged   the entries whose error was logged                       *)
(*   lst.status   the response sent, 0 before it                           *)
(***************************************************************************)
MaxItems == 3

\* An entry of temp/: whether its name starts with admission_, whether it is
\* a directory, whether fs.stat succeeds on it, and its data.json: absent,
\* complete, cut short (not JSON) or not readable.
TempEntry(adm, dir, stat, data) == [adm |-> adm, dir |-> dir, stat |-> stat, data |-> data]

EntrySamples ==
  {TempEntry(TRUE, TRUE, TRUE, d) : d \in {"ok", "absent", "malformed", "unreadable"}} \cup
  {TempEntry(FALSE, TRUE, TRUE, "absent"),
   TempEntry(TRUE, FALSE, TRUE, "absent"),
   TempEntry(TRUE, TRUE, FALSE, "ok")}

Listings == UNION {[1..n -> EntrySamples] : n \in 0..MaxItems}

InitList ==
  /\ AtRest("server")
  /\ pdf = Off
  /\ vec = Off
  /\ call = Off
  /\ \E items \in Listings :
       lst = [pc |-> "readdir", items |-> items, k |-> 0, forms |-> <<>>,
              logged |-> <<>>, status |-> 0]

\* catch (error) { res.status(500).json({ error: 'Failed to list forms' }) }
listFailed(l) == [l EXCEPT !.pc = "done", !.status = 500]

\* The for loop goes to the next entry, or ends: res.json({ success, forms }).
nextItem(l) ==
  IF l.k < Len(l.items)
  THEN [l EXCEPT !.pc = "stat", !.k = @ + 1]
  ELSE [l EXCEPT !.pc = "done", !.status = 200]

\* await fs.readdir(tempPath) resolved.
LstReaddirResolve ==
  /\ lst.pc = "readdir"
  /\ lst' = nextItem(lst)
  /\ UNCHANGED <<main, pdf, vec, call>>

\* await fs.readdir(tempPath) rejected.
LstReaddirReject ==
  /\ lst.pc = "readdir"
  /\ lst' = listFailed(lst)
  /\ UNCHANGED <<main, pdf, vec, call>>

\* await fs.stat(itemPath), outside the try of the record.
LstStat ==
  /\ lst.pc = "stat"
  /\ LET e == lst.items[lst.k]
     IN  lst' = IF ~e.stat THEN listFailed(lst)
                ELSE IF e.dir /\ e.adm THEN [lst EXCEPT !.pc = "exists"]
                ELSE nextItem(lst)
  /\ UNCHANGED <<main, pdf, vec, call>>

\* if (await fs.pathExists(dataPath))
LstPathExists ==
  /\ lst.pc = "exists"
  /\ lst' = IF lst.items[lst.k].data = "absent" THEN nextItem(lst)
                                                ELSE [lst EXCEPT !.pc = "read"]
  /\ UNCHANGED <<main, pdf, vec, call>>

\* Faulty variant: an error of one record ends the listing.
recordFailed_abort(l) == listFailed(l)

\* catch (err) { console.error(`Error reading ${item}:`, err) }
recordFailed(l) == nextItem([l EXCEPT !.logged = Append(@, l.k)])

\* await fs.readJSON(dataPath) settled: forms.push({...}) or the catch.
LstReadJSON ==
  /\ lst.pc = "read"
  /\ lst' = IF lst.items[lst.k].data = "ok"
            THEN nextItem([lst EXCEPT !.forms = Append(@, lst.k)])
            ELSE recordFailed(lst)
  /\ UNCHANGED <<main, pdf, vec, call>>

NextList ==
  \/ LstReaddirResolve
  \/ LstReaddirReject
  \/ LstStat
  \/ LstPathExists
  \/ LstReadJSON

SpecList == InitList /\ [][NextList]_vars

Readable == {e \in EntrySamples : e.adm /\ e.dir /\ e.stat /\ e.data = "ok"}

Broken == {e \in EntrySamples : e.adm /\ e.dir /\ e.stat /\ e.data \in {"malformed", "unreadable"}}

StatFails == {e \in EntrySamples : ~e.stat}

\* The places up to n of the entries that are in the set S, in order.
Places(items, n, S) ==
  SelectSeq([k \in 1..n |-> k], LAMBDA k : items[k] \in S)

TableOf(g) == {k \in Tables(pdf) : pdf.blocks[k].group = g}

\* The values of vals that are not empty, in order.
NonEmpty(vals) == SelectSeq(vals, LAMBDA v : v \notin {"undef", ""})

\* The values of vals that are neither empty nor the text N/A, in order.
NonEmptyNotNA(vals) == SelectSeq(vals, LAMBDA v : v \notin {"undef", "", "N/A"})

Shows(g, cells) == \A k \in TableOf(g) : pdf.blocks[k].cells = cells

\* The child table has its six rows and the academic table its three, an
\* empty value shown as N/A.
FixedRowsShown ==
  /\ TableOf("child") # {} /\ TableOf("academic") # {}
  /\ \A k \in TableOf("child") :
       /\ Len(pdf.blocks[k].cells) = 6
       /\ \A i \in 1..6 : pdf.blocks[k].cells[i] =
            IF pdf.in.fixed.child[i] \in {"undef", ""} THEN "N/A" ELSE pdf.in.fixed.child[i]
  /\ \A k \in TableOf("academic") :
       /\ Len(pdf.blocks[k].cells) = 3
       /\ \A i \in 1..3 : pdf.blocks[k].cells[i] =
            IF pdf.in.fixed.academic[i] \in {"undef", ""} THEN "N/A" ELSE pdf.in.fixed.academic[i]

NoNAShown ==
  \A k \in TableOf("father") \cup TableOf("mother") :
    \A i \in 1..Len(pdf.blocks[k].cells) : pdf.blocks[k].cells[i] # "N/A"

\* C21 as stated: the child and the academic table have all their rows, and
\* the father and the mother table have a row for a field iff its value was
\* sent non-empty, none of them showing N/A.
C21_RowIffNonEmpty ==
  Rendered =>
    /\ FixedRowsShown
    /\ named(pdf.in.father) /\ NonEmpty(pdf.in.father) # <<>> =>
         TableOf("father") # {} /\ Shows("father", NonEmpty(pdf.in.father))
    /\ named(pdf.in.mother) /\ NonEmpty(pdf.in.mother) # <<>> =>
         TableOf("mother") # {} /\ Shows("mother", NonEmpty(pdf.in.mother))
    /\ NoNAShown

\* C21, amended: the child and the academic table have all their rows, an
\* empty value shown as N/A; the father and the mother table have a row for a
\* field iff its value was sent non-empty and is not the text N/A, so none
\* of their rows shows N/A.
C21_RowIffNonEmptyAndNotNA ==
  Rendered =>
    /\ FixedRowsShown
    /\ named(pdf.in.father) =>
         /\ Shows("father", NonEmptyNotNA(pdf.in.father))
         /\ TableOf("father") = {} <=> NonEmptyNotNA(pdf.in.father) = <<>>
    /\ named(pdf.in.mother) =>
         /\ Shows("mother", NonEmptyNotNA(pdf.in.mother))
         /\ TableOf("mother") = {} <=> NonEmptyNotNA(pdf.in.mother) = <<>>
    /\ NoNAShown

\* A father of whom the name and three fields sent as N/A were submitted has
\* a table of one row; the child table shows N/A for the blood group.
C21_Witness ==
  /\ Rendered
  /\ pdf.in.father = Relative("v", 3, "N/A")
  /\ Shows("father", <<"v">>) /\ TableOf("father") # {}
  /\ \E k \in TableOf("child") : pdf.blocks[k].cells[BloodGroup] = "N/A"

(***************************************************************************)
(* The directory of a stored admission (saveFormToFile, src/server.js      *)
(* 181-186), for child names of up to MaxNameLen characters.               *)
(*   call.childName  formData.childName                                    *)
(*   call.ts         Date.now()                                            *)
(*   call.id         the name of the directory, as characters              *)
(*   call.dir        formDir as the path segments below __dirname          *)
(***************************************************************************)
MaxNameLen == 3

NameChars == {"a", "R", "9", "/", ".", "_", " "}

ChildNames == UNION {[1..n -> NameChars] : n \in 1..MaxNameLen}

DigitChars == <<"0", "1", "2", "3", "4", "5", "6", "7", "8", "9">>

\* The decimal digits of n, as in a template literal.
RECURSIVE decimal(_)
decimal(n) ==
  IF n < 10 THEN <<DigitChars[n + 1]>>
  ELSE decimal(n \div 10) \o <<DigitChars[(n % 10) + 1]>>

AdmissionPrefix == <<"a", "d", "m", "i", "s", "s", "i", "o", "n", "_">>

\* `admission_${sanitizedName}_${timestamp}`
directoryName(name, ts) == AdmissionPrefix \o sanitizedName(name) \o <<"_">> \o decimal(ts)

\* The segments of a path: the text between the separators.
RECURSIVE segments(_)
segments(s) ==
  IF s = <<>> THEN << <<>> >>
  ELSE LET r == segments(Tail(s))
       IN  IF Head(s) = "/" THEN << <<>> >> \o r
           ELSE << <<Head(s)>> \o Head(r) >> \o Tail(r)

\* path.join normalises: an empty segment and "." are dropped, ".." removes
\* the segment before it.
RECURSIVE normalised(_, _)
normalised(segs, acc) ==
  IF segs = <<>> THEN acc
  ELSE LET g == Head(segs)
       IN  IF g = <<>> \/ g = <<".">> THEN normalised(Tail(segs), acc)
           ELSE IF g = <<".", ".">>
           THEN normalised(Tail(segs), IF acc = <<>> THEN acc ELSE SubSeq(acc, 1, Len(acc) - 1))
           ELSE normalised(Tail(segs), Append(acc, g))

\* path.join(__dirname, 'temp', name), below __dirname.
pathJoin(base, name) == normalised(segments(name), base)

TempDir == << <<"t", "e", "m", "p">> >>

InitName ==
  /\ AtRest("server")
  /\ pdf = Off
  /\ lst = Off
  /\ vec = Off
  /\ \E name \in ChildNames, ts \in 1..MaxTime :
       call = [pc |-> "saveFormToFile", childName |-> name, ts |-> ts,
               id |-> <<>>, dir |-> <<>>]

\* The first three lines of saveFormToFile: timestamp, sanitizedName,
\* formDir.
SaveNaming ==
  /\ call.pc = "saveFormToFile"
  /\ LET id == directoryName(call.childName, call.ts)
     IN  call' = [call EXCEPT !.pc = "ensureDir", !.id = id, !.dir = pathJoin(TempDir, id)]
  /\ UNCHANGED <<main, pdf, lst, vec>>

NextName == SaveNaming

SpecName == InitName /\ [][NextName]_vars

IdAlphabet ==
  {"a", "b", "c", "d", "e", "f", "g", "h", "i", "j", "k", "l", "m", "n", "o", "p",
   "q", "r", "s", "t", "u", "v", "w", "x", "y", "z", "_"} \cup
  {DigitChars[k] : k \in 1..10}

\* C22: the name of the directory is admission_, the child name lowercased
\* with every character outside [a-z0-9] replaced by _, another _ and the
\* timestamp; it is made of [a-z0-9_] only, has no separator and no ..
\* segment, and the directory is a child of temp.
C22_ReferenceIdSafe ==
  call.pc = "ensureDir" =>
    LET n    == Len(call.childName)
        name == SubSeq(call.id, Len(AdmissionPrefix) + 1, Len(AdmissionPrefix) + n)
    IN  /\ SubSeq(call.id, 1, Len(AdmissionPrefix)) = AdmissionPrefix
        /\ Len(call.id) = Len(AdmissionPrefix) + n + 1 + Len(decimal(call.ts))
        /\ call.id[Len(AdmissionPrefix) + n + 1] = "_"
        /\ SubSeq(call.id, Len(AdmissionPrefix) + n + 2, Len(call.id)) = decimal(call.ts)
        /\ \A i \in 1..n :
             IF call.childName[i] \in {"a", "9"} THEN name[i] = call.childName[i]
             ELSE IF call.childName[i] = "R" THEN name[i] = "r"
             ELSE name[i] = "_"
        /\ \A i \in 1..Len(call.id) : call.id[i] \in IdAlphabet
        /\ \A i \in 1..Len(call.id) : call.id[i] \notin {"/", "."}
        /\ call.dir = TempDir \o <<call.id>>

\* The child name ../ has been turned into three underscores.
C22_Witness ==
  /\ call.pc = "ensureDir"
  /\ call.childName = <<".", ".", "/">>
  /\ call.id = AdmissionPrefix \o <<"_", "_", "_", "_", "1">>
  /\ Len(call.dir) = 2

(***************************************************************************)
(* sendEmail(...args) of src/mail.js (23-80) and src/unnamed/part_000      *)
(* (13-67).                                                                *)
(*   call.args       the arguments: one object, null, or the parameters    *)
(*   call.sendMails  the number of transporter.sendMail calls              *)
(*   call.mail       the mailOptions handed to transporter.sendMail        *)
(*   call.sent       whether transporter.sendMail has resolved             *)
(*   call.promise    "pending", "fulfilled" or "rejected"                  *)
(*   call.result     the value the promise is fulfilled with               *)
(***************************************************************************)
MailFiles == {"src/mail.js", "src/unnamed/part_000"}

\* sendEmail({receiverEmails, subject, body, attachments}), sendEmail(null),
\* sendEmail(receiverEmails, subject, body) and sendEmail().
ArgForms == {"object", "null", "parameters", "none"}

Recipients == {"undef", "", "a@b.c"}

\* The object has the subject as subject, as emailSubject, as both or not
\* at all; the parameters have it in the second place.
SendEmailArgs ==
  {a \in [form : ArgForms, to : Recipients, subject : {"undef", "s"},
          emailSubject : {"undef", "e"}, attachments : 0..1] :
     /\ a.form \in {"null", "none"} =>
          a.to = "undef" /\ a.subject = "undef" /\ a.attachments = 0
     /\ a.form # "object" => a.emailSubject = "undef"
     /\ a.form = "parameters" => a.attachments = 0}

\* emailData.subject || emailData.emailSubject, or the second parameter.
mailSubject(a) == IF a.subject # "undef" THEN a.subject ELSE a.emailSubject

\* const mailOptions = { to, subject, attachments, ... }
mailOptions(a) == [to |-> a.to, subject |-> mailSubject(a), attachments |-> a.attachments]

NoMail == [to |-> "undef", subject |-> "undef", attachments |-> 0]

\* error.message of the Error transporter.sendMail rejects with.
ErrorMessages == {"", "ECONNREFUSED"}

NoResult == [success |-> FALSE, error |-> "undef"]

\* A call sendEmail(...args) of the sendEmail of file f.
newSendEmail(f, a) ==
  [pc |-> "sendEmail", file |-> f, args |-> a, sendMails |-> 0,
   mail |-> NoMail, sent |-> FALSE, promise |-> "pending", result |-> NoResult]

InitSendEmail ==
  /\ AtRest("server")
  /\ pdf = Off
  /\ lst = Off
  /\ vec = Off
  /\ \E f \in MailFiles, a \in SendEmailArgs : call = newSendEmail(f, a)

\* return {...}: the promise of the async function is fulfilled.
returned(c, success, error) ==
  [c EXCEPT !.pc = "settled", !.promise = "fulfilled",
            !.result = [success |-> success, error |-> error]]

\* Faulty variant: the error is thrown on and the promise is rejected.
caught_rethrow(c, message) == [c EXCEPT !.pc = "settled", !.promise = "rejected"]

\* catch (error) { return { success: false, error: error.message ||
\* "Failed to send email" } }
caught(c, message) ==
  returned(c, FALSE, IF message = "" THEN "Failed to send email" ELSE message)

\* sendEmail up to its first await: the arguments are taken apart, the
\* recipient is tested, transporter.sendMail is called.
enterSendEmail(c) ==
  IF c.args.form = "null"
    THEN caught(c, "Cannot read properties of null")
  ELSE IF c.args.to \in {"undef", ""}
    THEN returned(c, FALSE, "No recipients defined")
  ELSE [c EXCEPT !.pc = "sendMail", !.sendMails = @ + 1, !.mail = mailOptions(c.args)]

\* sendEmail after await transporter.sendMail(mailOptions) resolved.
sendMailResolved(c) == returned([c EXCEPT !.sent = TRUE], TRUE, "undef")

SendEmailCall ==
  /\ call.pc = "sendEmail"
  /\ call' = enterSendEmail(call)
  /\ UNCHANGED <<main, pdf, lst, vec>>

\* await transporter.sendMail(mailOptions) resolved.
SendMailResolve ==
  /\ call.pc = "sendMail"
  /\ call' = sendMailResolved(call)
  /\ UNCHANGED <<main, pdf, lst, vec>>

\* await transporter.sendMail(mailOptions) rejected.
SendMailReject ==
  /\ call.pc = "sendMail"
  /\ \E message \in ErrorMessages : call' = caught(call, message)
  /\ UNCHANGED <<main, pdf, lst, vec>>

NextSendEmail ==
  \/ SendEmailCall
  \/ SendMailResolve
  \/ SendMailReject

SpecSendEmail == InitSendEmail /\ [][NextSendEmail]_vars

\* C27: the promise of sendEmail is never rejected: an error is returned as
\* {success: false, error}.  Without a recipient the result is
\* {success: false, error: "No recipients defined"} and
\* transporter.sendMail is not called; {success: true} is returned only
\* after transporter.sendMail resolved; sendMail is called at most once.
C27_SendEmailNeverRejects ==
  /\ call.promise # "rejected"
  /\ call.sendMails <= 1
  /\ call.pc = "settled" =>
       /\ call.promise = "fulfilled"
       /\ call.result.success <=> call.sent
       /\ call.result.success =>
            /\ call.sendMails = 1 /\ call.result.error = "undef"
            /\ call.mail.to = call.args.to
       /\ ~call.result.success => call.result.error \notin {"undef", ""}
       /\ (call.args.form # "null" /\ call.args.to \in {"undef", ""}) =>
            /\ call.result = [success |-> FALSE, error |-> "No recipients defined"]
            /\ call.sendMails = 0
       /\ call.args.form = "null" => ~call.result.success /\ call.sendMails = 0

\* transporter.sendMail rejected with an Error without a message, and
\* sendEmail of src/mail.js returned the default error text.
C27_Witness ==
  /\ call.pc = "settled"
  /\ call.file = "src/mail.js"
  /\ call.sendMails = 1 /\ ~call.sent
  /\ call.promise = "fulfilled"
  /\ call.result = [success |-> FALSE, error |-> "Failed to send email"]

(***************************************************************************)
(* The older servers: POST /api/admission of src/unnamed/part_001          *)
(* (691-813), and POST /api/admission (579-747) and POST /api/contact      *)
(* (415-576) of the first server of src/unnamed/part_002, which sends with *)
(* sendEmail of ./mail.  One request is followed.  Neither server has any  *)
(* code that writes a submission to a file.                                *)
(*   call.configured  isEmailConfigured() (part_001)                       *)
(*   call.inner       the sendEmail call in progress                       *)
(*   call.attempts    the recipients of the sends begun, in order          *)
(*   call.results     the success of the sends settled, in order           *)
(*   call.writes      the files written for the request                    *)
(***************************************************************************)
OlderServers == {"part_001", "mailjs"}

NewHandler(server, kind) ==
  [pc |-> "arrived", server |-> server, kind |-> kind, fd |-> AllPresent,
   photo |-> FALSE, cfd |-> AllContact, email |-> 1, configured |-> TRUE,
   inner |-> Off, attempts |-> <<>>, results |-> <<>>, renders |-> 0,
   writes |-> {}, status |-> 0, warning |-> FALSE, nres |-> 0]

OlderAdmissions ==
  {[NewHandler(sv, "admission") EXCEPT !.fd = fd, !.photo = p, !.configured = c] :
     sv \in OlderServers, fd \in FormSamples, p \in BOOLEAN, c \in BOOLEAN}

OlderContacts ==
  {[NewHandler("mailjs", "contact") EXCEPT !.cfd = c, !.email = e] :
     c \in ContactSamples, e \in EmailIds}

InitOlder ==
  /\ AtRest("server")
  /\ pdf = Off
  /\ lst = Off
  /\ vec = Off
  /\ call \in {h \in OlderAdmissions \cup OlderContacts :
                 /\ h.server = "mailjs" => h.configured
                 /\ (\E f \in ContactFields : Falsy(h.cfd[f])) => h.email = 1}

\* res.status(st).json({...})
respond(h, st, warning) ==
  [h EXCEPT !.pc = "done", !.status = st, !.warning = warning, !.nres = @ + 1]

\* await sendEmail({ receiverEmails: to, subject, body, attachments })
callSendEmail(h, who, to, attachments) ==
  [h EXCEPT !.attempts = Append(@, who),
            !.inner = enterSendEmail(newSendEmail("src/mail.js",
                        [form |-> "object", to |-> to, subject |-> "s",
                         emailSubject |-> "undef", attachments |-> attachments]))]

\* The sendEmail call in progress after transporter.sendMail settled.
settled(h, ok, message) ==
  LET c == IF ok THEN sendMailResolved(h.inner) ELSE caught(h.inner, message)
  IN  [h EXCEPT !.inner = c, !.results = Append(@, c.result.success)]

\* part_001: validation, then if (!isEmailConfigured()) the success
\* response with a note, else generatePDF.
P1AdmissionStart ==
  /\ call.pc = "arrived" /\ call.server = "part_001" /\ call.kind = "admission"
  /\ call' = IF Len(missingFields(call.fd)) > 0 THEN respond(call, 400, FALSE)
             ELSE IF ~call.configured THEN respond(call, 200, FALSE)
             ELSE [call EXCEPT !.pc = "render", !.renders = 1]
  /\ UNCHANGED <<main, pdf, lst, vec>>

\* part_001: generatePDF settled; transporter.sendMail, or the catch.
P1RenderSettle(ok) ==
  /\ call.pc = "render" /\ call.server = "part_001"
  /\ call' = IF ok THEN [call EXCEPT !.pc = "send", !.attempts = Append(@, "admin")]
             ELSE respond(call, 500, FALSE)
  /\ UNCHANGED <<main, pdf, lst, vec>>

\* part_001: await transporter.sendMail(mailOptions) settled.
P1SendSettle(ok) ==
  /\ call.pc = "send" /\ call.server = "part_001"
  /\ call' = respond([call EXCEPT !.results = Append(@, ok)], IF ok THEN 200 ELSE 500, FALSE)
  /\ UNCHANGED <<main, pdf, lst, vec>>

\* part_002, first server: validation, then await sendEmail({...}) to the
\* admin address, which is never empty.
MjAdmissionStart ==
  /\ call.pc = "arrived" /\ call.server = "mailjs" /\ call.kind = "admission"
  /\ call' = IF Len(missingFields(call.fd)) > 0 THEN respond(call, 400, FALSE)
             ELSE [callSendEmail(call, "admin", "a@b.c", IF call.photo THEN 1 ELSE 0)
                     EXCEPT !.pc = "emailing"]
  /\ UNCHANGED <<main, pdf, lst, vec>>

\* Faulty variant: a failed e-mail is answered with an error.
admissionAnswer_error(h) ==
  IF h.inner.result.success THEN respond(h, 200, FALSE) ELSE respond(h, 500, FALSE)

\* if (emailResult.success) 200 else "Still return success to user": 200
\* with a warning.
admissionAnswer(h) ==
  IF h.inner.result.success THEN respond(h, 200, FALSE) ELSE respond(h, 200, TRUE)

\* part_002, first server: transporter.sendMail settled inside sendEmail and
\* the handler answers.
MjAdmissionSettle(ok) ==
  /\ call.pc = "emailing" /\ call.inner.pc = "sendMail"
  /\ \E message \in ErrorMessages : call' = admissionAnswer(settled(call, ok, message))
  /\ UNCHANGED <<main, pdf, lst, vec>>

\* part_002, first server, contact: the two validations, then
\* await sendEmail(adminMailOptions).
MjContactStart ==
  /\ call.pc = "arrived" /\ call.server = "mailjs" /\ call.kind = "contact"
  /\ call' = IF contactInvalid(call.cfd) THEN respond(call, 400, FALSE)
             ELSE IF ~emailRegex(EmailSamples[call.email]) THEN respond(call, 400, FALSE)
             ELSE [callSendEmail(call, "admin", "a@b.c", 0) EXCEPT !.pc = "admin"]
  /\ UNCHANGED <<main, pdf, lst, vec>>

\* Faulty variant: the auto-reply is sent only after the admin mail went out.
afterAdmin_onlyIfSent(h) ==
  IF h.inner.result.success
  THEN [callSendEmail(h, "user", "a@b.c", 0) EXCEPT !.pc = "user"]
  ELSE respond(h, 200, TRUE)

\* if (!adminResult.success) { log; "Still try to send user email" };
\* await sendEmail(userMailOptions)
afterAdmin(h) == [callSendEmail(h, "user", "a@b.c", 0) EXCEPT !.pc = "user"]

\* The admin mail settled.
MjAdminSettle(ok) ==
  /\ call.pc = "admin" /\ call.inner.pc = "sendMail"
  /\ \E message \in ErrorMessages : call' = afterAdmin(settled(call, ok, message))
  /\ UNCHANGED <<main, pdf, lst, vec>>

\* The auto-reply settled: 200, with the warning unless both succeeded.
MjUserSettle(ok) ==
  /\ call.pc = "user" /\ call.inner.pc = "sendMail"
  /\ \E message \in ErrorMessages :
       LET h == settled(call, ok, message)
       IN  call' = respond(h, 200, ~(h.results[1] /\ h.results[2]))
  /\ UNCHANGED <<main, pdf, lst, vec>>

NextOlder ==
  \/ P1AdmissionStart
  \/ \E ok \in BOOLEAN : P1RenderSettle(ok)
  \/ \E ok \in BOOLEAN : P1SendSettle(ok)
  \/ MjAdmissionStart
  \/ \E ok \in BOOLEAN : MjAdmissionSettle(ok)
  \/ MjContactStart
  \/ \E ok \in BOOLEAN : MjAdminSettle(ok)
  \/ \E ok \in BOOLEAN : MjUserSettle(ok)

SpecOlder == InitOlder /\ [][NextOlder]_vars

\* The admission of an older server was valid and has been answered.
ValidAnswered(server) ==
  /\ call.pc = "done" /\ call.server = server /\ call.kind = "admission"
  /\ \A f \in RequiredSet : ~Falsy(call.fd[f])

Delivered == \E k \in 1..Len(call.results) : call.results[k]

\* C23: in part_001 a valid admission received while e-mail is not
\* configured, and in the first server of part_002 a valid admission whose
\* sendEmail returned {success: false}, is answered 200 {success: true}
\* although no mail went out for it and nothing was written.
C23_AcknowledgedWithoutSendOrStore ==
  /\ (ValidAnswered("part_001") /\ ~call.configured) =>
       /\ call.status = 200
       /\ call.attempts = <<>> /\ ~Delivered /\ call.writes = {}
  /\ (ValidAnswered("mailjs") /\ ~call.inner.result.success) =>
       /\ call.status = 200 /\ call.warning
       /\ ~Delivered /\ ~call.inner.sent /\ call.writes = {}

\* The first server of part_002 answered 200 to a valid admission with a
\* photo after transporter.sendMail had rejected.
C23_Witness ==
  /\ ValidAnswered("mailjs")
  /\ call.photo
  /\ call.inner.sendMails = 1 /\ ~call.inner.result.success
  /\ call.status = 200 /\ call.nres = 1

\* A contact submission of the first server of part_002 that passes both
\* validations; its fields are text.
ValidContact ==
  /\ call.server = "mailjs" /\ call.kind = "contact"
  /\ ~contactInvalid(call.cfd)
  /\ emailRegex(EmailSamples[call.email])

\* C28: in the mail.js-based contact handler a valid submission has the
\* admin notification attempted first and the auto-reply attempted after
\* it whatever the outcome of the first; the answer is always 200
\* {success: true}, with a warning iff one of the two sends failed.
C28_BothSendsThenSuccess ==
  ValidContact =>
    /\ call.pc = "admin" => call.attempts = <<"admin">> /\ call.results = <<>>
    /\ call.pc = "user" => call.attempts = <<"admin", "user">> /\ Len(call.results) = 1
    /\ call.pc = "done" =>
         /\ call.attempts = <<"admin", "user">>
         /\ Len(call.results) = 2
         /\ call.status = 200 /\ call.nres = 1
         /\ call.warning <=> (~call.results[1] \/ ~call.results[2])

\* The admin notification failed, the auto-reply went out, and the answer
\* is 200 with the warning.
C28_Witness ==
  /\ ValidContact
  /\ call.pc = "done"
  /\ call.results = <<FALSE, TRUE>>
  /\ call.status = 200 /\ call.warning

(***************************************************************************)
(* The handlers of src/server.js as a whole: responses, the transport the  *)
(* handler saw, and the reference.                                         *)
(***************************************************************************)
\* The awaits of the two handlers of src/server.js.
AwaitPoints == {"render", "save", "send", "fbRender", "fbSave", "cSave", "cSend"}

\* C24: every /api/admission and /api/contact request of src/server.js is
\* answered exactly once on every path: no request is answered twice, a
\* handler that has ended has answered once, and a request not yet answered
\* is waiting at one of the handler's awaits, whatever the validation, the
\* render, the transport, the send (resolved, rejected, timed out, settled
\* after the timer) and the writes did.
C24_ExactlyOneResponse ==
  variant = "server" =>
    \A r \in Reqs :
      /\ req[r].nres <= 1
      /\ req[r].pc = "done" <=> req[r].nres = 1
      /\ req[r].pc # "done" => req[r].pc \in AwaitPoints \cup {"idle"}
      /\ req[r].nres = 1 => req[r].status \in {200, 400, 500}

\* An admission whose timer fired first was stored by the catch block and
\* answered once; its sendMail resolved after that.  A contact request whose
\* send rejected was answered once with an error.
C24_Witness ==
  /\ variant = "server"
  /\ \E r \in Admissions :
       /\ req[r].saw = "active" /\ req[r].saves = 1
       /\ req[r].mail = "resolved"
       /\ req[r].pc = "done" /\ req[r].nres = 1 /\ req[r].status = 200
  /\ \E r \in Contacts :
       req[r].mail = "rejected" /\ req[r].nres = 1 /\ req[r].status = 500

\* A request that found no transporter has had no sendMail, and it wrote,
\* or is about to write, to the file store.
NoTransportPath(q) ==
  /\ q.mail = "none" /\ ~q.timer
  /\ q.kind = "admission" => q.saves >= 1
  /\ q.kind = "contact" => q.csaves >= 1

\* A handler that reads `transporter` while the probe is in flight reads
\* null.
ReadsNullWhileProbing ==
  \A r \in Reqs :
    (Probing /\ req[r].saw = "unchecked" /\ req'[r].saw # "unchecked") =>
      req'[r].saw = "null"

C26_ReferenceIffSaved ==
  variant = "server" =>
    \A r \in Admissions :
      (req[r].pc = "done" /\ req[r].status = 200) =>
        /\ req[r].ref # NoDir <=> req[r].saved # NoDir
        /\ req[r].ref # NoDir =>
             /\ req[r].ref = req[r].saved
             /\ req[r].ref = formDir(req[r].name, req[r].ts)
             /\ "." \in FilesIn(req[r].ref)
        /\ req[r].saves = 0 <=> (req[r].saw = "active" /\ req[r].ref = NoDir)
        /\ req[r].saves = 0 =>
             /\ req[r].mail = "resolved"
             /\ \A e \in disk : e.by # r

\* One admission was delivered and answered without a reference while the
\* disk holds the record of another, answered with its reference.
C26_Witness ==
  /\ variant = "server"
  /\ \E r \in Admissions : \E o \in Admissions :
       /\ req[r].status = 200 /\ req[r].saves = 0 /\ req[r].ref = NoDir
       /\ req[o].status = 200 /\ req[o].ref # NoDir /\ RecordOnDisk(o, req[o].ref)

(***************************************************************************)
(* The file store and GET /api/admin/forms together: src/server.js 677-712 *)
(* and the write-then-send server, src/unnamed/part_002 2841-2902.  The    *)
(* startup probe has ended without a transport, so that every submission   *)
(* goes to the file store; the listing runs beside the requests and reads  *)
(* the disk at each of its awaits.                                         *)
(*   lst.items       what readdir returned, in its order                   *)
(*   lst.k           the entry the for loop is at                          *)
(*   lst.forms       server.js: the entries pushed to forms                *)
(*   lst.admissions, lst.contacts   part_002: the two lists of result      *)
(*   lst.parsed      the directories whose data.json readJSON returned     *)
(*   lst.logged      the entries whose error was logged                    *)
(*   lst.stored, lst.complete   the contact files and the directories      *)
(*                   with a data.json that existed when readdir returned   *)
(***************************************************************************)
ContactsDir == [prefix |-> "contacts", name |-> <<>>, ts |-> 0]

\* `contact_${Date.now()}.json`
contactFile(ts) == [prefix |-> "contact_", name |-> <<>>, ts |-> ts]

\* The entries of temp/: the directories saveFormToFile made, and contacts/
\* once a contact has been written there.
TempItems ==
  {e.dir : e \in {x \in disk : x.file = "."}} \cup
  (IF contacts = {} THEN {} ELSE {ContactsDir})

\* fs.readdir returns the entries in an order of the file system's choosing.
Orders(S) ==
  {f \in [1..Cardinality(S) -> S] : \A i, j \in 1..Cardinality(S) : f[i] = f[j] => i = j}

\* stat.isDirectory(): everything the servers create in temp/ is a directory.
isDirectory(item) == item.prefix \in {"admission_", "contacts"}

\* stat.birthtime: ensureDir follows Date.now() at once, so the directory
\* is born in the millisecond of its name.
birthtime(item) == item.ts

NewListing ==
  [pc |-> "idle", items |-> <<>>, k |-> 0, forms |-> <<>>, admissions |-> <<>>,
   contacts |-> <<>>, parsed |-> {}, logged |-> {}, status |-> 0,
   stored |-> {}, complete |-> {}]

InitAdmin ==
  /\ variant \in {"server", "wts"}
  /\ now = 1
  /\ transporter = 0
  /\ activeConfig = 0
  /\ probeLog = [k \in 1..Cardinality(emailConfigs) |-> "failed"]
  /\ req = [r \in Reqs |-> NewReq]
  /\ disk = {}
  /\ contacts = {}
  /\ pdf = Off
  /\ vec = Off
  /\ call = Off
  /\ lst = NewListing

RECURSIVE newestFirst(_)
\* list.sort((a, b) => b.timestamp - a.timestamp): a stable sort, equal
\* timestamps keep their order.
newestFirst(s) ==
  IF Len(s) <= 1 THEN s
  ELSE LET e    == s[Len(s)]
           done == newestFirst(SubSeq(s, 1, Len(s) - 1))
           ahead == Cardinality({i \in 1..Len(done) : done[i].timestamp >= e.timestamp})
       IN  SubSeq(done, 1, ahead) \o <<e>> \o SubSeq(done, ahead + 1, Len(done))

\* catch (error) { res.status(500).json({ error: 'Failed to list forms' }) }
adminFailed(l) == [l EXCEPT !.pc = "done", !.status = 500]

\* The for loop goes to the next entry, or ends: part_002 sorts the two
\* lists; res.json({ success: true, ... }).
adminNext(l) ==
  IF l.k < Len(l.items) THEN [l EXCEPT !.pc = "stat", !.k = @ + 1]
  ELSE [l EXCEPT !.pc = "done", !.status = 200,
                 !.admissions = newestFirst(@), !.contacts = newestFirst(@)]

\* The request arrives; part_002 answers 401 unless the Authorization
\* header is the expected one; then await fs.readdir(tempPath).
AdminFormsArrive(authorized) ==
  /\ lst.pc = "idle"
  /\ lst' = IF variant = "wts" /\ ~authorized
            THEN [lst EXCEPT !.pc = "done", !.status = 401]
            ELSE [lst EXCEPT !.pc = "readdir"]
  /\ UNCHANGED <<main, pdf, vec, call>>

\* await fs.readdir(tempPath) settled.
AdminReaddir(ok) ==
  /\ lst.pc = "readdir"
  /\ \E items \in Orders(TempItems) :
       lst' = IF ok
              THEN adminNext([lst EXCEPT !.items = items,
                                !.stored = {contactFile(c.ts) : c \in contacts},
                                !.complete = {d \in TempItems : "data.json" \in FilesIn(d)}])
              ELSE adminFailed(lst)
  /\ UNCHANGED <<main, pdf, vec, call>>

\* The branch an entry takes after fs.stat: server.js reads the directories
\* named admission_*; part_002 reads those, and the files named
\* contact_*.json that lie in temp/ itself.
afterStat(l) ==
  LET item == l.items[l.k]
  IN  IF isDirectory(item)
      THEN IF item.prefix = "admission_" THEN [l EXCEPT !.pc = "exists"] ELSE adminNext(l)
      ELSE IF variant = "wts" /\ item.prefix = "contact_" THEN [l EXCEPT !.pc = "readContact"]
      ELSE adminNext(l)

\* await fs.stat(itemPath) settled; it is outside the try of the record.
AdminStat(ok) ==
  /\ lst.pc = "stat"
  /\ lst' = IF ok THEN afterStat(lst) ELSE adminFailed(lst)
  /\ UNCHANGED <<main, pdf, vec, call>>

\* await fs.pathExists(path.join(itemPath, 'data.json'))
hasData(d) == "data.json" \in FilesIn(d)

\* if (await fs.pathExists(dataPath))
AdminPathExists ==
  /\ lst.pc = "exists"
  /\ lst' = IF hasData(lst.items[lst.k]) THEN [lst EXCEPT !.pc = "read"] ELSE adminNext(lst)
  /\ UNCHANGED <<main, pdf, vec, call>>

\* Faulty variant: an entry whose data.json could not be read is listed
\* all the same.
adminLogged_listed(l) ==
  adminNext([l EXCEPT !.forms = Append(@, [id |-> l.items[l.k],
                                           timestamp |-> birthtime(l.items[l.k])])])

\* catch (err) { console.error(`Error reading ${item}:`, err) }
adminLogged(l) == adminNext([l EXCEPT !.logged = @ \cup {l.items[l.k]}])

\* forms.push({...}) of server.js, result.admissions.push({...}) of part_002.
pushed(l) ==
  LET item == l.items[l.k]
      e    == [id |-> item, timestamp |-> birthtime(item)]
      m    == [l EXCEPT !.parsed = @ \cup {item}]
  IN  adminNext(IF variant = "wts" THEN [m EXCEPT !.admissions = Append(@, e)]
                                   ELSE [m EXCEPT !.forms = Append(@, e)])

\* await fs.readJSON(dataPath) settled: it rejects when data.json is not
\* there, cannot be read, or is not JSON (a write cut short).
AdminReadJSON(ok) ==
  /\ lst.pc = "read"
  /\ lst' = IF ok /\ "data.json" \in FilesIn(lst.items[lst.k]) THEN pushed(lst)
                                                               ELSE adminLogged(lst)
  /\ UNCHANGED <<main, pdf, vec, call>>

NextAdmin ==
  \/ Tick
  \/ SubmitAdmission
  \/ \E r \in Reqs : \E ok \in BOOLEAN : RenderDone(r, ok)
  \/ \E r \in Reqs : \E f \in SavePoints(TRUE) : SaveDone(r, f)
  \/ \E r \in Reqs : \E ok \in BOOLEAN : FbRenderDone(r, ok)
  \/ \E r \in Reqs : \E f \in SavePoints(TRUE) : FbSaveDone(r, f)
  \/ SubmitContact
  \/ \E r \in Reqs : \E ok \in BOOLEAN : ContactSaveDone(r, ok)
  \/ \E r \in Reqs : \E ok \in BOOLEAN : ContactFbSaveDone(r, ok)
  \/ \E r \in Reqs : \E ok \in BOOLEAN : WtsRenderDone(r, ok)
  \/ \E r \in Reqs : \E f \in SavePoints(TRUE) : WtsSaveDone(r, f)
  \/ \E authorized \in BOOLEAN : AdminFormsArrive(authorized)
  \/ \E ok \in BOOLEAN : AdminReaddir(ok)
  \/ \E ok \in BOOLEAN : AdminStat(ok)
  \/ AdminPathExists
  \/ \E ok \in BOOLEAN : AdminReadJSON(ok)

SpecAdmin == InitAdmin /\ [][NextAdmin]_vars

Ids(list) == {list[k].id : k \in 1..Len(list)}

Descending(list) ==
  \A i, j \in 1..Len(list) : i < j => list[i].timestamp >= list[j].timestamp

\* The listing was answered 200 and no entry's error was logged on the way.
ListedCleanly == lst.pc = "done" /\ lst.status = 200 /\ lst.logged = {}

\* C29: in the write-then-send server an authenticated listing returns, in
\* contacts, every contact that was stored as temp/contacts/contact_<ts>.json
\* and, in admissions, every stored admission record, each list newest first.
C29_StoredAreListed ==
  (variant = "wts" /\ ListedCleanly) =>
    /\ lst.stored \subseteq Ids(lst.contacts)
    /\ lst.complete \subseteq Ids(lst.admissions)
    /\ Descending(lst.contacts) /\ Descending(lst.admissions)

\* C30: in src/server.js every entry of forms is an admission_* directory
\* whose data.json exists and was parsed, and a directory that
\* saveFormToFile left without data.json is in no listing.
C30_OnlyParsedRecordsListed ==
  variant = "server" =>
    /\ \A d \in Ids(lst.forms) :
         /\ d.prefix = "admission_"
         /\ d \in lst.parsed
         /\ "data.json" \in FilesIn(d)
    /\ \A d \in TempItems : "data.json" \notin FilesIn(d) => d \notin Ids(lst.forms)
    /\ lst.pc = "done" => lst.status \in {200, 500}

\* The listing met the directory of a saveFormToFile that stopped at
\* data.json and the directory of one that completed, and returned the
\* second only.
C30_Witness ==
  /\ variant = "server"
  /\ lst.pc = "done" /\ lst.status = 200 /\ lst.logged = {}
  /\ Len(lst.forms) = 1
  /\ \E k \in 1..Len(lst.items) :
       /\ lst.items[k] \notin Ids(lst.forms)
       /\ FilesIn(lst.items[k]) = {".", "form.pdf", "photo"}
====
